---- MODULE Spec2Model ----
(***************************************************************************)
(* State-machine model of the learning360 backend (backend/server.py):     *)
(* the document store (users, projects, tasks, notifications,              *)
(* config_modules, config_roles, config_user_types), the uploads           *)
(* directory, and the request handlers that generate tasks from module     *)
(* templates, reconcile a project's modules, report progress and drive     *)
(* the deliverable review workflow.                                        *)
(*                                                                         *)
(* Conventions.  uuid4() is a fresh identifier drawn from the counter      *)
(* next_id.  Python None is NoId (0) for identifier/timestamp fields and   *)
(* the string "None" for string fields.  A collection is the sequence of   *)
(* its documents in insertion order.  Money is kept in whole units and     *)
(* progress in tenths of a percent.                                        *)
(*                                                                         *)
(* Steps.  The handlers are coroutines on one event loop: a handler runs   *)
(* alone from one await to the next, and any suspended request can be the  *)
(* next to go on.  One action is one such stretch: the database call (or   *)
(* thread hand-off) the coroutine was suspended at, and the synchronous     *)
(* code after it up to the next await, identifier draws included.  A       *)
(* request that carries a token arrives in get_current_user: the caller is *)
(* read, the role dependency is evaluated and the handler runs up to its   *)
(* first await.  The action named after a handler resumes the request      *)
(* inflight[k] at that first await; the actions named <handler>_<call>(k)  *)
(* resume it at the later ones.  A handler that needs no login makes its   *)
(* first database call when the request arrives.  `ops` counts the         *)
(* requests that arrived and doubles as the clock read by datetime.now().  *)
(***************************************************************************)
EXTENDS Integers, Sequences, FiniteSets, TLC

VARIABLES
  users,            \* db.users
  projects,         \* db.projects
  tasks,            \* db.tasks
  notifications,    \* db.notifications
  config_modules,   \* db.config_modules
  uploads,          \* file names present in UPLOADS_DIR
  next_id,          \* the next value uuid4() returns
  ops,              \* requests that arrived so far
  response,         \* what the latest answered request returned
  generated,        \* arguments and result of the latest task generation
  config_roles,     \* db.config_roles
  config_user_types,\* db.config_user_types
  inflight,         \* requests suspended at an await, with their local variables
  RESEND_API_KEY,   \* the e-mail provider's key read from the environment
  tokens            \* user ids of the tokens register has issued

vars == <<users, projects, tasks, notifications, config_modules, uploads,
          next_id, ops, response, generated, config_roles, config_user_types,
          inflight, RESEND_API_KEY, tokens>>

(***************************************************************************)
(* Bounds of the exploration                                               *)
(***************************************************************************)
\* requests served in a run
MaxOps == 2

\* requests served in a run of SpecMail
MaxMailOps == 2

(***************************************************************************)
(* Program constants                                                       *)
(***************************************************************************)
NoId == 0

None == "None"

\* Python truthiness of an optional identifier and of an optional string
TruthyId(v) == v # NoId

TruthyStr(v) == v \notin {None, ""}

\* a deliverable without a file has file_url None
NoUrl == <<>>

ModulesReadLimit == 100

UsersReadLimit == 1000

ProjectsReadLimit == 1000

SubscribersReadLimit == 100

TasksReadLimit == 1000

DEFAULT_MODULE_COSTS ==
  [m \in {"design", "tech", "marketing", "sales", "content", "admin", "academic"} |->
     CASE m = "design" -> 1000
       [] m = "tech" -> 2000
       [] m = "marketing" -> 1500
       [] m = "sales" -> 1200
       [] m = "content" -> 800
       [] m = "admin" -> 500
       [] m = "academic" -> 1000]

(***************************************************************************)
(* Sequence helpers                                                        *)
(***************************************************************************)
Range(s) == {s[i] : i \in DOMAIN s}

Min(a, b) == IF a < b THEN a ELSE b

\* cursor.to_list(n): at most the first n documents
ToList(s, n) == SubSeq(s, 1, Min(Len(s), n))

RECURSIVE SeqSum(_)
SeqSum(s) == IF s = <<>> THEN 0 ELSE Head(s) + SeqSum(Tail(s))

RECURSIVE SumOver(_, _)
\* sum(d.values()) of a dict d restricted to the key set ks
SumOver(d, ks) ==
  IF ks = {} THEN 0
  ELSE LET k == CHOOSE x \in ks : TRUE IN d[k] + SumOver(d, ks \ {k})

DictSum(d) == SumOver(d, DOMAIN d)

\* [x for x in s if P(x)]
Filter(s, P(_)) == SelectSeq(s, P)

Contains(s, x) == \E i \in DOMAIN s : s[i] = x

RemoveAt(s, k) == SubSeq(s, 1, k - 1) \o SubSeq(s, k + 1, Len(s))

(***************************************************************************)
(* MODULE_TEMPLATES: the seven built-in modules.  Each task template is    *)
(* kept with its department, number of checklist items (all stored with    *)
(* completed = False), number of deliverable names and description; its    *)
(* title, checklist texts and deliverable names are written as positions   *)
(* in the table.  Names and descriptions are written without accents.      *)
(***************************************************************************)
TemplateChecklist(mid, k, nc) ==
  [i \in 1..nc |-> [text |-> mid \o "#" \o ToString(k) \o "." \o ToString(i),
                    completed |-> FALSE]]

TemplateDeliverables(mid, k, nd) ==
  [i \in 1..nd |-> mid \o "#" \o ToString(k) \o ":" \o ToString(i)]

\* a built-in task template: title, description, assigned_user_type,
\* checklist and deliverables; it carries no "id" key
DefaultTemplate(mid, k, ut, nc, nd, description) ==
  [title |-> mid \o "#" \o ToString(k),
   description |-> description,
   assigned_user_type |-> ut,
   checklist |-> TemplateChecklist(mid, k, nc),
   deliverables |-> TemplateDeliverables(mid, k, nd)]

DefaultTasks(mid, shape) ==
  [k \in 1..Len(shape) |-> DefaultTemplate(mid, k, shape[k][1], shape[k][2], shape[k][3],
                                             shape[k][4])]

\* per task template:
\* <<assigned_user_type, len(checklist), len(deliverables), description>>
MODULE_TEMPLATES ==
  << [id |-> "design", name |-> "Diseno de Marca e Identidad Visual",
      tasks |-> DefaultTasks("design",
        <<<<"creativo", 6, 2,
            "Diseno y presentacion de opciones de logotipo para el proyecto">>,
          <<"creativo", 4, 2,
            "Desarrollo de la identidad visual: colores, tipografias, formatos">>,
          <<"creativo", 4, 2,
            "Diseno de senalizacion para espacios fisicos">>>>)],
     [id |-> "tech", name |-> "Tecnologia y Desarrollo",
      tasks |-> DefaultTasks("tech",
        <<<<"desarrollo", 7, 2,
            "Desarrollo e implantacion del portal web del proyecto">>,
          <<"desarrollo", 4, 2,
            "Creacion de landing pages y squeeze pages para campanas">>,
          <<"desarrollo", 4, 2,
            "Integracion de sistema de pagos y domiciliaciones">>,
          <<"desarrollo", 4, 2,
            "Personalizacion y parametrizacion de la plataforma LMS">>,
          <<"desarrollo", 4, 2,
            "Configuracion de aulas de teleformacion y streaming">>>>)],
     [id |-> "marketing", name |-> "Comunicacion y Marketing",
      tasks |-> DefaultTasks("marketing",
        <<<<"marketing", 5, 2,
            "Planificacion y diseno de campanas de comunicacion">>,
          <<"marketing", 5, 2,
            "Estrategia de contenidos y posicionamiento organico">>,
          <<"marketing", 4, 2,
            "Administracion de campanas de publicidad pagada">>,
          <<"marketing", 3, 2,
            "Estructuracion de dashboards y seguimiento">>>>)],
     [id |-> "sales", name |-> "Atencion Comercial",
      tasks |-> DefaultTasks("sales",
        <<<<"comercial", 4, 2,
            "Elaboracion de argumentarios y highlights del programa">>,
          <<"comercial", 4, 2,
            "Formacion y entrenamiento del equipo comercial">>,
          <<"comercial", 4, 2,
            "Project Managers 360o - Captacion proactiva">>,
          <<"direccion", 3, 2,
            "Seguimiento y reporting comercial">>>>)],
     [id |-> "content", name |-> "Factoria de Contenidos y Cursos",
      tasks |-> DefaultTasks("content",
        <<<<"contenido", 6, 2,
            "Diseno de estrategia pedagogica y contenidos">>,
          <<"contenido", 4, 2,
            "Diseno y parametrizacion de la plataforma de cursos">>,
          <<"contenido", 5, 2,
            "Carga y configuracion de contenidos en la plataforma">>,
          <<"contenido", 4, 2,
            "Diseno y produccion de entornos sincronos">>>>)],
     [id |-> "admin", name |-> "Gestion Administrativa y Financiera",
      tasks |-> DefaultTasks("admin",
        <<<<"administracion", 4, 2,
            "Cobro y gestion de prematriculas">>,
          <<"administracion", 4, 2,
            "Cobro de cuotas y gestion de impagos">>,
          <<"administracion", 4, 2,
            "Gestion de pagos a profesorado y colaboradores">>,
          <<"administracion", 4, 2,
            "Control y pago de comisiones al equipo comercial">>>>)],
     [id |-> "academic", name |-> "Gestion Academica",
      tasks |-> DefaultTasks("academic",
        <<<<"academico", 4, 2,
            "Elaboracion y seguimiento de calendarios">>,
          <<"academico", 4, 2,
            "Coordinacion del profesorado de cada modulo">>,
          <<"academico", 5, 2,
            "Dinamizacion y seguimiento personalizado">>,
          <<"academico", 4, 3,
            "Elaboracion de documentacion academica oficial">>>>)] >>

(***************************************************************************)
(* Config loader and task generator                                        *)
(***************************************************************************)
\* the document inserted for one built-in module (description, icon and
\* colour are display metadata and are not kept)
SeedDoc(m) == [id |-> m.id, name |-> m.name, tasks |-> m.tasks]

\* modules_dict = {m["id"]: m for m in db_modules}: the last document of an id wins
InModulesDict(db_modules, mid) == \E i \in DOMAIN db_modules : db_modules[i].id = mid

ModulesDictGet(db_modules, mid) ==
  LET last == CHOOSE i \in DOMAIN db_modules :
                /\ db_modules[i].id = mid
                /\ \A j \in DOMAIN db_modules : db_modules[j].id = mid => j <= i
  IN db_modules[last]

\* the deliverable record built for one template entry
GenDeliverable(id, name, end_date) ==
  [id |-> id, name |-> name, description |-> "", status |-> "pending",
   due_date |-> end_date,
   file_url |-> NoUrl, uploaded_by |-> NoId, uploaded_at |-> NoId,
   feedback |-> None, reviewed_by |-> NoId, reviewed_at |-> NoId]

\* {**item, "id": uuid}: the template's item with a fresh id, its other keys kept
GenChecklistItem(id, item) ==
  [id |-> id, text |-> item.text, completed |-> item.completed]

\* uuid4() calls made for one task template: deliverables, checklist, then the Task
IdsOfTemplate(tt) == Len(tt.deliverables) + Len(tt.checklist) + 1

\* task_template.get(key, default)
TemplateGet(tt, key, default) == IF key \in DOMAIN tt THEN tt[key] ELSE default

\* the task built from one task template, drawing ids n, n+1, ...
GenTask(project_id, module_id, tt, end_date, n) ==
  LET nd == Len(tt.deliverables)
      nc == Len(tt.checklist)
  IN [id |-> n + nd + nc,
      project_id |-> project_id,
      module_id |-> module_id,
      title |-> TemplateGet(tt, "title", ""),
      description |-> TemplateGet(tt, "description", ""),
      status |-> "pending",
      checklist |-> [i \in 1..nc |-> GenChecklistItem(n + nd + i - 1, tt.checklist[i])],
      deliverables |-> [i \in 1..nd |-> GenDeliverable(n + i - 1, tt.deliverables[i], end_date)],
      due_date |-> end_date,
      assigned_to |-> NoId,
      assigned_user_type |-> TemplateGet(tt, "assigned_user_type", None)]

\* faulty variant: the inner loop returns after the first task template
GenModuleTasksFirstOnly(project_id, module_id, tts, end_date, n) ==
  IF tts = <<>> THEN <<>>
  ELSE <<GenTask(project_id, module_id, Head(tts), end_date, n)>>

RECURSIVE GenModuleTasks(_, _, _, _, _)
\* inner loop: the task templates of one module, in stored order
GenModuleTasks(project_id, module_id, tts, end_date, n) ==
  IF tts = <<>> THEN <<>>
  ELSE <<GenTask(project_id, module_id, Head(tts), end_date, n)>>
       \o GenModuleTasks(project_id, module_id, Tail(tts), end_date,
                         n + IdsOfTemplate(Head(tts)))

RECURSIVE IdsOfTemplates(_)
IdsOfTemplates(tts) ==
  IF tts = <<>> THEN 0 ELSE IdsOfTemplate(Head(tts)) + IdsOfTemplates(Tail(tts))

\* faulty variant: the outer loop stops after the first module of the list
GenTasksLoopFirstModule(project_id, modules, end_date, db_modules, n) ==
  IF modules = <<>> \/ ~InModulesDict(db_modules, Head(modules)) THEN <<>>
  ELSE GenModuleTasks(project_id, Head(modules),
                      ModulesDictGet(db_modules, Head(modules)).tasks, end_date, n)

RECURSIVE GenTasksLoop(_, _, _, _, _)
\* outer loop: the caller's modules in the caller's order, unknown ids skipped
GenTasksLoop(project_id, modules, end_date, db_modules, n) ==
  IF modules = <<>> THEN <<>>
  ELSE IF InModulesDict(db_modules, Head(modules))
       THEN LET tts == ModulesDictGet(db_modules, Head(modules)).tasks
            IN GenModuleTasks(project_id, Head(modules), tts, end_date, n)
               \o GenTasksLoop(project_id, Tail(modules), end_date, db_modules,
                               n + IdsOfTemplates(tts))
       ELSE GenTasksLoop(project_id, Tail(modules), end_date, db_modules, n)

RECURSIVE IdsOfModules(_, _)
IdsOfModules(modules, db_modules) ==
  IF modules = <<>> THEN 0
  ELSE (IF InModulesDict(db_modules, Head(modules))
        THEN IdsOfTemplates(ModulesDictGet(db_modules, Head(modules)).tasks)
        ELSE 0) + IdsOfModules(Tail(modules), db_modules)

\* generate_tasks_for_modules_async once get_modules_from_db has returned
\* db_modules: the returned batch and the next unused identifier
generate_tasks_for_modules_async(project_id, modules, end_date, db_modules, n) ==
  [tasks |-> GenTasksLoop(project_id, modules, end_date, db_modules, n),
   next |-> n + IdsOfModules(modules, db_modules)]

(***************************************************************************)
(* Collections                                                             *)
(***************************************************************************)
\* db.<coll>.find_one({"id": id}): the first document with that id
HasId(coll, id) == \E i \in DOMAIN coll : coll[i].id = id

IndexOfId(coll, id) ==
  CHOOSE i \in DOMAIN coll : coll[i].id = id /\ \A j \in DOMAIN coll : coll[j].id = id => i <= j

FindOne(coll, id) == coll[IndexOfId(coll, id)]

\* db.tasks.find({"project_id": pid}).to_list(1000)
TasksOfProject(ts, pid) ==
  LET OfProject(t) == t.project_id = pid IN ToList(Filter(ts, OfProject), TasksReadLimit)

\* create_notification: the inserted document (title and message are display text)
create_notification(id, user_id, type, project_id) ==
  [id |-> id, user_id |-> user_id, type |-> type, read |-> FALSE, project_id |-> project_id]

\* faulty variant: every role passes the manager check
IsManagementAnyRole(u) == u.role \in {"admin", "project_manager", "collaborator"}

IsManagement(u) == u.role \in {"admin", "project_manager"}

(***************************************************************************)
(* Three registered users (the first registrant is the administrator) and  *)
(* a module configuration trimmed by the administrator to two small        *)
(* modules.                                                                *)
(***************************************************************************)
InitUsers ==
  << [id |-> 1, email |-> "ana@x.es", role |-> "admin", user_type |-> "direccion"],
     [id |-> 2, email |-> "pm@x.es", role |-> "project_manager", user_type |-> "creativo"],
     [id |-> 3, email |-> "col@x.es", role |-> "collaborator", user_type |-> "creativo"] >>

TrimmedStore ==
  << [id |-> "design", name |-> "Diseno",
      tasks |-> <<DefaultTemplate("design", 1, "creativo", 1, 2, "Logotipo")>>],
     [id |-> "tech", name |-> "Tecnologia",
      tasks |-> <<DefaultTemplate("tech", 1, "desarrollo", 0, 1, "Portal web"),
                  DefaultTemplate("tech", 2, "desarrollo", 1, 0, "")>>] >>

NoResponse == [op |-> "none", status |-> 0, actor |-> NoId]

NoGen == [project_id |-> NoId, modules |-> <<>>, end_date |-> None,
          db_modules |-> <<>>, first_id |-> NoId, tasks |-> <<>>]

(***************************************************************************)
(* Requests: arrival, suspension at an await, answer                       *)
(***************************************************************************)
\* one more request arrives; datetime.now() returns Now while it is served
Arrived == ops' = ops + 1 /\ UNCHANGED <<RESEND_API_KEY, tokens>>

Now == ops

\* what a request answers with: the handler, the HTTP status, the caller and
\* the parameters of the call
Reply(op, status, actor, args) ==
  [op |-> op, status |-> status, actor |-> actor.id, args |-> args]

Answer(r, status) == Reply(r.op, status, r.actor, r.args)

\* the arriving request reaches an await with the local variables r; `alone`
\* records that no other request is suspended while this one is served
Begin(r) ==
  inflight' = Append([i \in DOMAIN inflight |-> [inflight[i] EXCEPT !.alone = FALSE]],
                     [alone |-> inflight = <<>>] @@ r)

\* the resumed request inflight[k] reaches its next await with the local variables r
Suspend(k, r) == inflight' = [inflight EXCEPT ![k] = r @@ [alone |-> inflight[k].alone]]

\* the resumed request inflight[k] returns or raises
Return(k) == inflight' = RemoveAt(inflight, k)

\* inflight[k] is a request of handler op suspended at the call pc
At(k, op, pc) == inflight[k].op = op /\ inflight[k].pc = pc

\* the handlers that depend on require_admin
AdminOnlyOps ==
  {"delete_project", "admin_create_module", "admin_delete_module",
   "admin_create_task_template", "get_users", "update_user", "delete_user",
   "admin_get_user_types", "admin_create_user_type", "admin_update_user_type",
   "admin_delete_user_type", "admin_get_roles", "admin_create_role",
   "admin_update_role", "admin_delete_role", "admin_update_module",
   "admin_update_task_template", "admin_delete_task_template", "admin_get_modules",
   "admin_get_module_tasks", "admin_get_stats"}

\* the handlers that depend on require_manager_or_admin
ManagerOps ==
  {"create_project", "update_project", "create_task", "delete_task", "delete_deliverable"}

\* faulty variant: only the administrator role is protected
IsBuiltInRoleAdminOnly(role_id) == role_id = "admin"

\* role_id in ["admin", "project_manager", "collaborator"]
IsBuiltInRole(role_id) == role_id \in {"admin", "project_manager", "collaborator"}

(***************************************************************************)
(* E-mail delivery                                                         *)
(***************************************************************************)
\* what a request's e-mail deliveries meet: no RESEND_API_KEY, a delivery that
\* succeeds, a delivery that raises inside resend
EmailOutcomes ==
  IF RESEND_API_KEY = "" THEN {"unconfigured"} ELSE {"sent", "failed"}

EmailOutcomesFor(recipients) == IF recipients = <<>> THEN {"none"} ELSE EmailOutcomes

\* faulty variant: the exception of a failed delivery leaves the function
send_email_notification_raising(mail) ==
  IF mail = "unconfigured" THEN "returned"
  ELSE IF mail = "failed" THEN "raised" ELSE "returned"

\* how send_email_notification ends: it returns early without a key, and the
\* try block catches what the delivery raises
send_email_notification(mail) ==
  IF mail = "unconfigured" THEN "returned"
  ELSE IF mail = "failed" THEN "returned" ELSE "returned"

\* send_email_notification awaits asyncio.to_thread only with a key
EmailAwaits(mail) == mail \in {"sent", "failed"}

(***************************************************************************)
(* Projects: creation                                                      *)
(***************************************************************************)
DefaultCost(m) == IF m \in DOMAIN DEFAULT_MODULE_COSTS THEN DEFAULT_MODULE_COSTS[m] ELSE 0

\* for module_id in modules: if module_id not in module_costs: ... = default
CostsWithDefaults(costs, modules) ==
  [m \in DOMAIN costs \cup Range(modules) |->
     IF m \in DOMAIN costs THEN costs[m] ELSE DefaultCost(m)]

\* the Project document create_project builds before its first await
Project(actor, data, id) ==
  LET module_costs == CostsWithDefaults(data.module_costs, data.modules)
      total_cost == IF data.billing_mode = "project"
                    THEN data.total_project_cost ELSE DictSum(module_costs)
  IN [id |-> id, name |-> data.name, end_date |-> data.end_date,
      modules |-> data.modules,
      module_costs |-> module_costs, billing_mode |-> data.billing_mode,
      status |-> "active", progress |-> 0,
      cost_per_module |-> data.cost_per_module,
      total_project_cost |-> total_cost,
      enrollment_payment |-> data.enrollment_payment, created_by |-> actor.id]

(***************************************************************************)
(* Requests that carry a token                                             *)
(***************************************************************************)
\* what a handler refuses with 400 before its first await: an empty update
\* body, the caller's own id in delete_user, a built-in id in admin_delete_role
BadRequest(op, current_user, args) ==
  \/ op \in {"update_task", "update_user", "admin_update_module"} /\ args[2].keys = {}
  \/ op = "delete_user" /\ args[1] = current_user.id
  \/ op = "admin_delete_role" /\ IsBuiltInRole(args[1])

\* the call a handler awaits first
FirstAwait(op) ==
  CASE op = "create_project" -> "projects.insert_one"
    [] op = "admin_get_modules" -> "get_modules_from_db.find"
    [] op = "admin_get_user_types" -> "get_user_types_from_db.find"
    [] op = "admin_get_roles" -> "get_roles_from_db.find"
    [] OTHER -> "first await"

\* a request with the token of user_id arrives for the handler op: the user
\* is read (401 without it), require_admin or require_manager_or_admin looks
\* at the role read (403), and the handler runs up to its first await;
\* create_project builds its Project document on the way (its id is drawn)
get_current_user(user_id, op, args) ==
  /\ Arrived
  /\ IF ~HasId(users, user_id)
     THEN /\ response' = [op |-> op, status |-> 401, actor |-> user_id]
          /\ UNCHANGED <<inflight, next_id>>
     ELSE LET current_user == FindOne(users, user_id)
              locals == [op |-> op, pc |-> FirstAwait(op), actor |-> current_user,
                         args |-> args]
          IN IF \/ op \in AdminOnlyOps /\ current_user.role # "admin"
                \/ op \in ManagerOps /\ ~IsManagement(current_user)
             THEN /\ response' = [op |-> op, status |-> 403, actor |-> user_id]
                  /\ UNCHANGED <<inflight, next_id>>
             ELSE IF BadRequest(op, current_user, args)
             THEN /\ response' = Reply(op, 400, current_user, args)
                  /\ UNCHANGED <<inflight, next_id>>
             ELSE IF op = "create_project"
             THEN /\ Begin([project |-> Project(current_user, args[1], next_id)] @@ locals)
                  /\ next_id' = next_id + 1
                  /\ UNCHANGED response
             ELSE /\ Begin(locals)
                  /\ UNCHANGED <<next_id, response>>
  /\ UNCHANGED <<users, projects, tasks, notifications, config_modules, uploads,
                 generated, config_roles, config_user_types>>

\* the next turn of a notification loop over recipients: create_notification
\* builds the Notification (its id is drawn) and awaits insert_one; after the
\* last recipient the handler returns what r.result holds
NotifyNext(k, r, recipients) ==
  IF recipients = <<>>
  THEN /\ response' = [mail |-> r.mail, notified |-> r.notified] @@ r.result
                        @@ Answer(r, 200)
       /\ Return(k)
       /\ UNCHANGED next_id
  ELSE /\ next_id' = next_id + 1
       /\ Suspend(k, [pc |-> "notifications.insert_one", recipients |-> recipients,
                      notification |-> create_notification(next_id, recipients[1].id,
                                                           r.type, r.project_id)] @@ r)
       /\ UNCHANGED response

\* the Project document is inserted
create_project_insert_one(k) ==
  /\ At(k, "create_project", "projects.insert_one")
  /\ projects' = Append(projects, inflight[k].project)
  /\ Suspend(k, [inflight[k] EXCEPT !.pc = "get_modules_from_db.find"])
  /\ UNCHANGED <<users, tasks, notifications, config_modules, uploads, next_id, ops, RESEND_API_KEY, tokens,
                 response, generated, config_roles, config_user_types>>

\* get_modules_from_db has returned db_modules: the batch is generated (its
\* ids are drawn) and, if it is not empty, tasks.insert_many is awaited
create_project_generate(k, db_modules) ==
  LET r == inflight[k]
      data == r.args[1]
      gen == generate_tasks_for_modules_async(r.project.id, data.modules, data.end_date,
                                              db_modules, next_id)
  IN /\ next_id' = gen.next
     /\ generated' = [project_id |-> r.project.id, modules |-> data.modules,
                      end_date |-> data.end_date, db_modules |-> db_modules,
                      first_id |-> next_id, tasks |-> gen.tasks]
     /\ Suspend(k, [pc |-> IF gen.tasks # <<>> THEN "tasks.insert_many" ELSE "users.find",
                    tasks |-> gen.tasks, db_modules |-> db_modules] @@ r)
     /\ UNCHANGED response

create_project_insert_many(k) ==
  /\ At(k, "create_project", "tasks.insert_many")
  /\ tasks' = tasks \o inflight[k].tasks
  /\ Suspend(k, [inflight[k] EXCEPT !.pc = "users.find"])
  /\ UNCHANGED <<users, projects, notifications, config_modules, uploads, next_id, ops, RESEND_API_KEY, tokens,
                 response, generated, config_roles, config_user_types>>

\* every stored user is notified, the creator included
create_project_users_find(k) ==
  /\ At(k, "create_project", "users.find")
  /\ LET r == inflight[k]
         all_users == ToList(users, UsersReadLimit)
     IN \E mail \in EmailOutcomesFor(all_users) :
          NotifyNext(k, [mail |-> mail, notified |-> <<>>, type |-> "project_created",
                         project_id |-> r.project.id,
                         result |-> [project_id |-> r.project.id,
                                     tasks_created |-> Len(r.tasks),
                                     tasks |-> r.tasks, db_modules |-> r.db_modules]] @@ r,
                     all_users)
  /\ UNCHANGED <<users, projects, tasks, notifications, config_modules, uploads, ops, RESEND_API_KEY, tokens,
                 generated, config_roles, config_user_types>>

get_project_tasks(k) ==
  /\ At(k, "get_project_tasks", "first await")
  /\ LET actor == inflight[k].actor
         project_id == inflight[k].args[1]
     IN /\ response' = [project_id |-> project_id, tasks |-> TasksOfProject(tasks, project_id)]
                         @@ Reply("get_project_tasks", 200, actor, <<project_id>>)
        /\ Return(k)
        /\ UNCHANGED <<users, projects, tasks, notifications, config_modules, uploads,
                       next_id, generated,
                       config_roles, config_user_types,
                     ops, RESEND_API_KEY, tokens>>

(***************************************************************************)
(* Progress reporting                                                      *)
(***************************************************************************)
\* round((completed / total) * 100, 1) in tenths, computed as the doubles
\* compute it.  The quotient and the product are each rounded to 53 bits and
\* round() then takes the tenth nearest to the double it is given, a double
\* exactly halfway going to the even tenth.  Away from a halfway ratio the
\* rounding error of the double (below 2^-45) cannot change the nearest tenth
\* for total <= 1000.  At a halfway ratio a/b in lowest terms, b = 16 * d with
\* d in {1, 5, 25}: for d = 1 the double is exact; otherwise a/d lies in
\* [2^e, 2^(e+1)), its double is off by eps/d units of 2^(e-52), the product
\* is off by diff quarter-units, and it stays on the halfway value exactly
\* when diff is within half a unit of the product's last place.
RoundTenths(completed, total) ==
  LET f == (1000 * completed) \div total
      r == (1000 * completed) % total
      HalfEven == IF f % 2 = 0 THEN f ELSE f + 1
      Pow2[n \in 0..19] == IF n = 0 THEN 1 ELSE 2 * Pow2[n - 1]
      common == CHOOSE g \in 1..total :
                  /\ completed % g = 0 /\ total % g = 0
                  /\ \A h \in (g + 1)..total : completed % h # 0 \/ total % h # 0
      a == completed \div common
      d == (total \div common) \div 16
      e == CHOOSE x \in -5..7 : d * Pow2[x + 5] <= 32 * a /\ 32 * a < d * Pow2[x + 6]
      R == ((a % d) * (Pow2[(52 - e) % 20] % d)) % d
      eps == IF 2 * R < d THEN 0 - R ELSE d - R
      diff == (25 \div d) * eps
      half == IF \/ 25 * a > d * Pow2[e + 5]
                 \/ 25 * a = d * Pow2[e + 5] /\ diff >= 0
              THEN 16 ELSE 8
  IN IF 2 * r < total THEN f
     ELSE IF 2 * r > total THEN f + 1
     ELSE IF d = 1 THEN HalfEven
     ELSE IF diff > half THEN f + 1
     ELSE IF 0 - diff > half THEN f
     ELSE HalfEven

CompletedCount(ts) == LET Done(t) == t.status = "completed" IN Len(Filter(ts, Done))

\* round((completed / len(tasks)) * 100, 1) or 0 without tasks, in tenths
ComputedProgress(ts) ==
  IF ts # <<>> THEN RoundTenths(CompletedCount(ts), Len(ts)) ELSE 0

BillingKeys ==
  {"total_project_cost", "enrollment_payment", "module_costs", "cost_per_module",
   "billing_mode"}

\* the project document a listing returns
ReportedProject(p, ts, actor) ==
  LET own == TasksOfProject(ts, p.id)
  IN [id |-> p.id, progress |-> ComputedProgress(own), total_tasks |-> Len(own),
      completed_tasks |-> CompletedCount(own),
      billing |-> IF IsManagement(actor) THEN BillingKeys ELSE {}]

\* the answer of a listing that read no project
get_projects_return(k, r, reported) ==
  /\ response' = [projects |-> reported] @@ Answer(r, 200)
  /\ Return(k)

\* projects.find; without a project the loop over the projects awaits nothing
get_projects(k) ==
  /\ At(k, "get_projects", "first await")
  /\ LET actor == inflight[k].actor
     IN /\ LET found == ToList(projects, ProjectsReadLimit)
           IN IF found = <<>>
              THEN /\ response' = [projects |-> <<>>] @@ Reply("get_projects", 200, actor, <<>>)
                   /\ Return(k)
              ELSE /\ Suspend(k, [op |-> "get_projects", pc |-> "tasks.find", actor |-> actor,
                             args |-> <<>>, projects |-> found, reported |-> <<>>])
                   /\ UNCHANGED response
        /\ UNCHANGED <<users, projects, tasks, notifications, config_modules, uploads,
                       next_id, generated, config_roles, config_user_types,
                       ops, RESEND_API_KEY, tokens>>

\* tasks.find of the next project read: its progress is computed
get_projects_tasks_find(k) ==
  /\ At(k, "get_projects", "tasks.find")
  /\ LET r == inflight[k]
         project == r.projects[Len(r.reported) + 1]
         reported == Append(r.reported, ReportedProject(project, tasks, r.actor))
     IN IF Len(reported) = Len(r.projects)
        THEN get_projects_return(k, r, reported)
        ELSE /\ Suspend(k, [r EXCEPT !.reported = reported])
             /\ UNCHANGED response
  /\ UNCHANGED <<users, projects, tasks, notifications, config_modules, uploads,
                 next_id, ops, RESEND_API_KEY, tokens, generated, config_roles, config_user_types>>

get_project(k) ==
  /\ At(k, "get_project", "first await")
  /\ LET actor == inflight[k].actor
         project_id == inflight[k].args[1]
     IN /\ IF HasId(projects, project_id)
           THEN /\ Suspend(k, [op |-> "get_project", pc |-> "tasks.find", actor |-> actor,
                          args |-> <<project_id>>, project |-> FindOne(projects, project_id)])
                /\ UNCHANGED response
           ELSE /\ response' = Reply("get_project", 404, actor, <<project_id>>)
                /\ Return(k)
        /\ UNCHANGED <<users, projects, tasks, notifications, config_modules, uploads,
                       next_id, generated, config_roles, config_user_types,
                       ops, RESEND_API_KEY, tokens>>

get_project_tasks_find(k) ==
  /\ At(k, "get_project", "tasks.find")
  /\ Suspend(k, [pc |-> "config_modules.find",
                 reported |-> ReportedProject(inflight[k].project, tasks, inflight[k].actor)]
                @@ inflight[k])
  /\ UNCHANGED <<users, projects, tasks, notifications, config_modules, uploads,
                 next_id, ops, RESEND_API_KEY, tokens, response, generated, config_roles, config_user_types>>

\* the module documents are read directly (no seeding) to order and name the
\* project's modules
get_project_config_modules_find(k) ==
  /\ At(k, "get_project", "config_modules.find")
  /\ LET r == inflight[k]
         db_modules == ToList(config_modules, ModulesReadLimit)
         Known(m) == HasId(db_modules, m)
     IN response' = [project |-> r.reported,
                     modules_data |-> Range(Filter(r.project.modules, Known))]
                      @@ Answer(r, 200)
  /\ Return(k)
  /\ UNCHANGED <<users, projects, tasks, notifications, config_modules, uploads,
                 next_id, ops, RESEND_API_KEY, tokens, generated, config_roles, config_user_types>>

export_project_pdf(k) ==
  /\ At(k, "export_project_pdf", "first await")
  /\ LET actor == inflight[k].actor
         project_id == inflight[k].args[1]
     IN /\ IF HasId(projects, project_id)
           THEN /\ Suspend(k, [op |-> "export_project_pdf", pc |-> "tasks.find", actor |-> actor,
                          args |-> <<project_id>>, project |-> FindOne(projects, project_id)])
                /\ UNCHANGED response
           ELSE /\ response' = Reply("export_project_pdf", 404, actor, <<project_id>>)
                /\ Return(k)
        /\ UNCHANGED <<users, projects, tasks, notifications, config_modules, uploads,
                       next_id, generated, config_roles, config_user_types,
                       ops, RESEND_API_KEY, tokens>>

export_project_pdf_tasks_find(k) ==
  /\ At(k, "export_project_pdf", "tasks.find")
  /\ Suspend(k, [pc |-> "get_modules_from_db.find",
                 tasks |-> TasksOfProject(tasks, inflight[k].project.id)] @@ inflight[k])
  /\ UNCHANGED <<users, projects, tasks, notifications, config_modules, uploads,
                 next_id, ops, RESEND_API_KEY, tokens, response, generated, config_roles, config_user_types>>

\* the "Progreso General" figure of the report: project.get("progress", 0)
\* (the module names of the report are read through get_modules_from_db)
export_project_pdf_return(k, db_modules) ==
  LET r == inflight[k]
  IN /\ response' = [project_id |-> r.project.id, progress |-> r.project.progress,
                     total_tasks |-> Len(r.tasks),
                     completed_tasks |-> CompletedCount(r.tasks)] @@ Answer(r, 200)
     /\ Return(k)
     /\ UNCHANGED <<next_id, generated>>

(***************************************************************************)
(* Task listing and dashboard                                              *)
(***************************************************************************)
\* an identifier no document carries
UnknownId == 999

\* the dashboard lists the newest projects
RecentLimit == 5

CompletedReadLimit == 50

ListReadLimit == 100

RECURSIVE NewestFirst(_)
\* sort("created_at", -1): a document's created_at is read when its id is
\* drawn, so the newest document is the one with the greatest id
NewestFirst(s) ==
  IF s = <<>> THEN <<>>
  ELSE LET i == CHOOSE i \in DOMAIN s : \A j \in DOMAIN s : s[j].id <= s[i].id
       IN <<s[i]>> \o NewestFirst(RemoveAt(s, i))

\* a project document as stored, by the billing keys it carries
RawProject(p) == [id |-> p.id, billing |-> BillingKeys \cap DOMAIN p]

\* ids of the projects with status active or on_hold
ValidProjectIds(ps) ==
  LET Valid(p) == p.status \in {"active", "on_hold"}
      valid_projects == ToList(Filter(ps, Valid), ProjectsReadLimit)
  IN {valid_projects[i].id : i \in DOMAIN valid_projects}

\* project_map = {p["id"]: p["name"] for p in projects}: the projects found
\* among project_ids; the last document of an id wins
ProjectMap(ps, project_ids) ==
  LET Named(p) == p.id \in project_ids
      found == ToList(Filter(ps, Named), ListReadLimit)
      Last(id) == CHOOSE i \in DOMAIN found :
                    found[i].id = id /\ \A j \in DOMAIN found : found[j].id = id => j <= i
  IN [id \in {found[i].id : i \in DOMAIN found} |-> found[Last(id)].name]

ProjectIdsOf(ts) == {ts[i].project_id : i \in DOMAIN ts}

\* the query of GET /tasks: a status or an assigned_to that is not sent, or
\* is sent empty, does not filter
TaskMatches(t, query, valid_project_ids) ==
  /\ IF ~TruthyStr(query.status) THEN TRUE
     ELSE IF query.status = "pending_all" THEN t.status \in {"pending", "in_progress"}
     ELSE t.status = query.status
  /\ query.assigned_to = NoId \/ t.assigned_to = query.assigned_to
  /\ t.project_id \in valid_project_ids

get_tasks(k) ==
  /\ At(k, "get_tasks", "first await")
  /\ LET actor == inflight[k].actor
         query == inflight[k].args[1]
     IN /\ Suspend(k, [op |-> "get_tasks", pc |-> "tasks.find", actor |-> actor, args |-> <<query>>,
                  valid_project_ids |-> ValidProjectIds(projects)])
        /\ UNCHANGED <<users, projects, tasks, notifications, config_modules, uploads,
                       next_id, response, generated, config_roles, config_user_types,
                       ops, RESEND_API_KEY, tokens>>

get_tasks_tasks_find(k) ==
  /\ At(k, "get_tasks", "tasks.find")
  /\ LET r == inflight[k]
         Matches(t) == TaskMatches(t, r.args[1], r.valid_project_ids)
     IN Suspend(k, [pc |-> "projects.find",
                    tasks |-> ToList(NewestFirst(Filter(tasks, Matches)), TasksReadLimit)]
                   @@ r)
  /\ UNCHANGED <<users, projects, tasks, notifications, config_modules, uploads,
                 next_id, ops, RESEND_API_KEY, tokens, response, generated, config_roles, config_user_types>>

get_tasks_projects_find(k) ==
  /\ At(k, "get_tasks", "projects.find")
  /\ Suspend(k, [pc |-> "get_modules_from_db.find",
                 project_map |-> ProjectMap(projects, ProjectIdsOf(inflight[k].tasks))]
                @@ inflight[k])
  /\ UNCHANGED <<users, projects, tasks, notifications, config_modules, uploads,
                 next_id, ops, RESEND_API_KEY, tokens, response, generated, config_roles, config_user_types>>

\* the tasks with the names looked up for them
get_tasks_return(k, db_modules) ==
  LET r == inflight[k]
  IN /\ response' =
          [tasks |-> [i \in DOMAIN r.tasks |->
                        [id |-> r.tasks[i].id,
                         project_name |-> IF r.tasks[i].project_id \in DOMAIN r.project_map
                                          THEN r.project_map[r.tasks[i].project_id]
                                          ELSE "Desconocido",
                         module_name |-> IF InModulesDict(db_modules, r.tasks[i].module_id)
                                         THEN ModulesDictGet(db_modules, r.tasks[i].module_id).name
                                         ELSE "General"]]]
            @@ Answer(r, 200)
     /\ Return(k)
     /\ UNCHANGED <<next_id, generated>>

UnreadCount(ns, uid) ==
  Cardinality({i \in DOMAIN ns : ns[i].user_id = uid /\ ~ns[i].read})

\* the i-th await of get_dashboard_stats is a count_documents for i in
\* 1..3 and 5..11; what it counts
DashboardCount(i, actor, valid_project_ids) ==
  LET Active(p) == p.status = "active"
      Completed(p) == p.status = "completed"
      InValid(t) == t.project_id \in valid_project_ids
      WithStatus(st) == LET Is(t) == InValid(t) /\ t.status = st IN Len(Filter(tasks, Is))
      Mine(t) == InValid(t) /\ t.assigned_to = actor.id
      MinePending(t) == Mine(t) /\ t.status = "pending"
  IN CASE i = 1 -> Len(projects)
       [] i = 2 -> Len(Filter(projects, Active))
       [] i = 3 -> Len(Filter(projects, Completed))
       [] i = 5 -> Len(Filter(tasks, InValid))
       [] i = 6 -> WithStatus("pending")
       [] i = 7 -> WithStatus("in_progress")
       [] i = 8 -> WithStatus("completed")
       [] i = 9 -> Len(Filter(tasks, Mine))
       [] i = 10 -> Len(Filter(tasks, MinePending))
       [] i = 11 -> UnreadCount(notifications, actor.id)

\* the call awaited as the i-th await of get_dashboard_stats
DashboardAwait(i) ==
  CASE i \in {4, 12, 14, 17, 19} -> "projects.find"
    [] i \in {13, 16, 18} -> "tasks.find"
    [] i = 15 -> "get_modules_from_db.find"
    [] OTHER -> "count_documents"

get_dashboard_stats_return(k, r) ==
  /\ response' = [total_projects |-> r.counts[1],
                  counts |-> r.counts,
                  unread_notifications |-> r.counts[10],
                  recent_projects |-> [i \in DOMAIN r.recent |-> RawProject(r.recent[i])]]
                   @@ Answer(r, 200)
  /\ Return(k)

get_dashboard_stats(k) ==
  /\ At(k, "get_dashboard_stats", "first await")
  /\ LET actor == inflight[k].actor
     IN /\ Suspend(k, [op |-> "get_dashboard_stats", pc |-> DashboardAwait(2), await |-> 2,
                  actor |-> actor, args |-> <<>>,
                  counts |-> <<DashboardCount(1, actor, {})>>,
                  valid_project_ids |-> {}, recent |-> <<>>, project_map |-> {},
                  project_ids |-> {}])
        /\ UNCHANGED <<users, projects, tasks, notifications, config_modules, uploads,
                       next_id, response, generated, config_roles, config_user_types,
                       ops, RESEND_API_KEY, tokens>>

get_dashboard_stats_count_documents(k) ==
  /\ At(k, "get_dashboard_stats", "count_documents")
  /\ LET r == inflight[k]
     IN Suspend(k, [pc |-> DashboardAwait(r.await + 1), await |-> r.await + 1,
                    counts |-> Append(r.counts,
                                      DashboardCount(r.await, r.actor, r.valid_project_ids))]
                   @@ r)
  /\ UNCHANGED <<users, projects, tasks, notifications, config_modules, uploads,
                 next_id, ops, RESEND_API_KEY, tokens, response, generated, config_roles, config_user_types>>

\* awaits 4 (valid projects), 12 (recent projects), 14, 17 and 19 (names of
\* the projects of the tasks read)
get_dashboard_stats_projects_find(k) ==
  /\ At(k, "get_dashboard_stats", "projects.find")
  /\ LET r == inflight[k]
         next == [pc |-> DashboardAwait(r.await + 1), await |-> r.await + 1]
         project_map == r.project_map \cup DOMAIN ProjectMap(projects, r.project_ids)
     IN CASE r.await = 4 ->
               /\ Suspend(k, next @@ [valid_project_ids |-> ValidProjectIds(projects)] @@ r)
               /\ UNCHANGED response
          [] r.await = 12 ->
               /\ Suspend(k, next @@ [recent |-> ToList(NewestFirst(projects), RecentLimit)]
                             @@ r)
               /\ UNCHANGED response
          [] r.await \in {14, 17} ->
               /\ Suspend(k, next @@ [project_map |-> project_map] @@ r)
               /\ UNCHANGED response
          [] r.await = 19 -> get_dashboard_stats_return(k, r)
  /\ UNCHANGED <<users, projects, tasks, notifications, config_modules, uploads,
                 next_id, ops, RESEND_API_KEY, tokens, generated, config_roles, config_user_types>>

\* awaits 13 (completed tasks), 16 (pending tasks) and 18 (the caller's
\* tasks); the projects not yet in project_map are looked up next, if any
get_dashboard_stats_tasks_find(k) ==
  /\ At(k, "get_dashboard_stats", "tasks.find")
  /\ LET r == inflight[k]
         InValid(t) == t.project_id \in r.valid_project_ids
         Done(t) == InValid(t) /\ t.status = "completed"
         Pending(t) == InValid(t) /\ t.status \in {"pending", "in_progress"}
         Mine(t) == InValid(t) /\ t.assigned_to = r.actor.id
         found == CASE r.await = 13 -> ToList(Filter(tasks, Done), CompletedReadLimit)
                    [] r.await = 16 -> ToList(Filter(tasks, Pending), ListReadLimit)
                    [] r.await = 18 -> ToList(Filter(tasks, Mine), ListReadLimit)
         project_ids == IF r.await = 13 THEN ProjectIdsOf(found)
                        ELSE ProjectIdsOf(found) \ r.project_map
         skip == r.await # 13 /\ project_ids = {}
     IN IF skip /\ r.await = 18
        THEN get_dashboard_stats_return(k, r)
        ELSE /\ Suspend(k, [pc |-> IF skip THEN "tasks.find" ELSE "projects.find",
                            await |-> IF skip THEN 18 ELSE r.await + 1,
                            project_ids |-> project_ids] @@ r)
             /\ UNCHANGED response
  /\ UNCHANGED <<users, projects, tasks, notifications, config_modules, uploads,
                 next_id, ops, RESEND_API_KEY, tokens, generated, config_roles, config_user_types>>

\* await 15: get_modules_from_db has returned
get_dashboard_stats_modules(k, db_modules) ==
  /\ Suspend(k, [pc |-> DashboardAwait(16), await |-> 16] @@ inflight[k])
  /\ UNCHANGED <<next_id, response, generated>>

(***************************************************************************)
(* Tasks                                                                   *)
(***************************************************************************)
DeliverableStatuses == {"pending", "in_review", "approved", "rejected"}

\* update_one({"id": id}, {"$set": {...}}) on the first task with that id
ReplaceTask(ts, id, t) == [ts EXCEPT ![IndexOfId(ts, id)] = t]

\* "/api/uploads/<name>" and file_url.split("/")[-1]
UrlOfFile(file_name) == <<"api", "uploads", file_name>>

FileOfUrl(url) == url[Len(url)]

\* $set of the sent keys on the stored task
ApplyTaskUpdate(t, upd) ==
  [t EXCEPT
     !.title = IF "title" \in upd.keys THEN upd.title ELSE @,
     !.description = IF "description" \in upd.keys THEN upd.description ELSE @,
     !.status = IF "status" \in upd.keys THEN upd.status ELSE @,
     !.due_date = IF "due_date" \in upd.keys THEN upd.due_date ELSE @,
     !.assigned_to = IF "assigned_to" \in upd.keys THEN upd.assigned_to ELSE @,
     !.assigned_user_type =
        IF "assigned_user_type" \in upd.keys THEN upd.assigned_user_type ELSE @,
     !.checklist = IF "checklist" \in upd.keys THEN upd.checklist ELSE @,
     !.deliverables = IF "deliverables" \in upd.keys THEN upd.deliverables ELSE @]

\* items sent as completed whose stored item (looked up by id) was not
NewCompletedItems(original, upd) ==
  IF "checklist" \in upd.keys
  THEN LET WasCompleted(id) ==
             \E k \in DOMAIN original.checklist :
                /\ original.checklist[k].id = id
                /\ \A j \in DOMAIN original.checklist :
                      original.checklist[j].id = id => j <= k
                /\ original.checklist[k].completed
           Newly(item) == item.completed /\ ~WasCompleted(item.id)
       IN Filter(upd.checklist, Newly)
  ELSE <<>>

\* faulty variant: supervisors already among the recipients are added again
AddSupervisorsAgain(recipients, supervisors, actor) ==
  LET NotActor(s) == s.id # actor.id
  IN recipients \o Filter(supervisors, NotActor)

\* supervisors join the recipients dict unless already a key of it or the actor
AddSupervisors(recipients, supervisors, actor) ==
  LET NewSupervisor(s) == ~HasId(recipients, s.id) /\ s.id # actor.id
  IN recipients \o Filter(supervisors, NewSupervisor)

\* the condition under which update_task reads the supervisors
Supervised(original, task, upd) ==
  \/ task.assigned_user_type # original.assigned_user_type
  \/ task.assigned_to # original.assigned_to
  \/ ("status" \in upd.keys /\ upd.status = "completed")
  \/ NewCompletedItems(original, upd) # <<>>

\* the notification loop of update_task starts over the recipients dict
update_task_notify(k, r, recipients) ==
  \E mail \in EmailOutcomesFor(recipients) :
    NotifyNext(k, [mail |-> mail, notified |-> <<>>, type |-> "task_assignment_update",
                   project_id |-> r.original_task.project_id,
                   result |-> [task_id |-> r.args[1], sent |-> r.args[2],
                               original_task |-> r.original_task, task |-> r.task,
                               recipients |-> [i \in DOMAIN recipients |-> recipients[i].id]]]
                  @@ r,
               recipients)

\* target_users are known: the supervisors are read if the change calls for
\* them, otherwise the notification loop starts
update_task_recipients(k, r, target_users) ==
  IF Supervised(r.original_task, r.task, r.args[2])
  THEN /\ Suspend(k, [pc |-> "get_notification_subscribers.find",
                      user_type |-> r.task.assigned_user_type,
                      target_users |-> target_users] @@ r)
       /\ UNCHANGED <<next_id, response>>
  ELSE update_task_notify(k, r, target_users)

\* the supervisors are back: they join the recipients
update_task_subscribers(k, supervisors) ==
  update_task_notify(k, inflight[k],
                     AddSupervisors(inflight[k].target_users, supervisors, inflight[k].actor))

\* the task is read (an empty body was refused before)
update_task(k) ==
  /\ At(k, "update_task", "first await")
  /\ LET r == inflight[k]
         task_id == r.args[1]
     IN IF ~HasId(tasks, task_id)
        THEN /\ response' = Answer(r, 404)
             /\ Return(k)
        ELSE /\ Suspend(k, [pc |-> "tasks.update_one",
                            original_task |-> FindOne(tasks, task_id)] @@ r)
             /\ UNCHANGED response
  /\ UNCHANGED <<users, projects, tasks, notifications, config_modules, uploads,
                 next_id, ops, RESEND_API_KEY, tokens, generated, config_roles,
                 config_user_types>>

\* the sent keys are $set on the task stored now, if it is still stored
update_task_update_one(k) ==
  /\ At(k, "update_task", "tasks.update_one")
  /\ LET task_id == inflight[k].args[1]
     IN tasks' = IF HasId(tasks, task_id)
                 THEN ReplaceTask(tasks, task_id,
                                  ApplyTaskUpdate(FindOne(tasks, task_id), inflight[k].args[2]))
                 ELSE tasks
  /\ Suspend(k, [inflight[k] EXCEPT !.pc = "tasks.find_one"])
  /\ UNCHANGED <<users, projects, notifications, config_modules, uploads, next_id, ops, RESEND_API_KEY, tokens,
                 response, generated, config_roles, config_user_types>>

\* the task is read again; task.get on a task deleted meanwhile raises
update_task_find_one(k) ==
  /\ At(k, "update_task", "tasks.find_one")
  /\ LET r == inflight[k]
     IN IF HasId(tasks, r.args[1])
        THEN /\ Suspend(k, [pc |-> "projects.find_one",
                            task |-> FindOne(tasks, r.args[1])] @@ r)
             /\ UNCHANGED response
        ELSE /\ response' = Answer(r, 500)
             /\ Return(k)
  /\ UNCHANGED <<users, projects, tasks, notifications, config_modules, uploads,
                 next_id, ops, RESEND_API_KEY, tokens, generated, config_roles, config_user_types>>

\* the project is read for its name; then the assignee or the department is
\* looked up, or no user is
update_task_projects_find_one(k) ==
  /\ At(k, "update_task", "projects.find_one")
  /\ LET r == inflight[k]
         new_user_type == r.task.assigned_user_type
         new_assigned_to == r.task.assigned_to
         old_user_type == r.original_task.assigned_user_type
         old_assigned_to == r.original_task.assigned_to
     IN IF TruthyId(new_assigned_to) /\ new_assigned_to # old_assigned_to
        THEN /\ Suspend(k, [r EXCEPT !.pc = "users.find_one"])
             /\ UNCHANGED <<next_id, response>>
        ELSE IF /\ TruthyStr(new_user_type) /\ ~TruthyId(new_assigned_to)
                /\ \/ new_user_type # old_user_type
                   \/ (TruthyId(old_assigned_to) /\ ~TruthyId(new_assigned_to))
        THEN /\ Suspend(k, [r EXCEPT !.pc = "users.find"])
             /\ UNCHANGED <<next_id, response>>
        ELSE update_task_recipients(k, r, <<>>)
  /\ UNCHANGED <<users, projects, tasks, notifications, config_modules, uploads, ops, RESEND_API_KEY, tokens,
                 generated, config_roles, config_user_types>>

\* Case 1: the new assignee, unless it is the caller
update_task_users_find_one(k) ==
  /\ At(k, "update_task", "users.find_one")
  /\ LET r == inflight[k]
         new_assigned_to == r.task.assigned_to
     IN update_task_recipients(k, r,
          IF HasId(users, new_assigned_to) /\ new_assigned_to # r.actor.id
          THEN <<FindOne(users, new_assigned_to)>> ELSE <<>>)
  /\ UNCHANGED <<users, projects, tasks, notifications, config_modules, uploads, ops, RESEND_API_KEY, tokens,
                 generated, config_roles, config_user_types>>

\* Case 2: the users of the department, but the caller
update_task_users_find(k) ==
  /\ At(k, "update_task", "users.find")
  /\ LET r == inflight[k]
         IsNewUserType(u) == u.user_type = r.task.assigned_user_type
         NotActor(u) == u.id # r.actor.id
     IN update_task_recipients(k, r,
          Filter(ToList(Filter(users, IsNewUserType), SubscribersReadLimit), NotActor))
  /\ UNCHANGED <<users, projects, tasks, notifications, config_modules, uploads, ops, RESEND_API_KEY, tokens,
                 generated, config_roles, config_user_types>>

\* {**item, "id": str(uuid.uuid4())} for a checklist item and for a deliverable
ChecklistItemWithId(item, id) ==
  [id |-> id, text |-> item.text, completed |-> item.completed]

DeliverableWithId(item, id) ==
  [id |-> id, name |-> item.name, description |-> item.description,
   status |-> item.status, due_date |-> item.due_date,
   file_url |-> item.file_url, uploaded_by |-> item.uploaded_by,
   uploaded_at |-> item.uploaded_at, feedback |-> item.feedback,
   reviewed_by |-> item.reviewed_by, reviewed_at |-> item.reviewed_at]

\* the Task document create_task builds; ids n.. go to its checklist items,
\* then to its deliverables, then to the task
ManualTask(project_id, data, n) ==
  LET nc == Len(data.checklist)
      nd == Len(data.deliverables)
  IN [id |-> n + nc + nd,
      project_id |-> project_id,
      module_id |-> data.module_id,
      title |-> data.title,
      description |-> IF data.description = None THEN "" ELSE data.description,
      status |-> "pending",
      checklist |-> [i \in 1..nc |-> ChecklistItemWithId(data.checklist[i], n + i - 1)],
      deliverables |-> [i \in 1..nd |->
                          DeliverableWithId(data.deliverables[i], n + nc + i - 1)],
      due_date |-> data.due_date,
      assigned_to |-> data.assigned_to,
      assigned_user_type |-> None]

\* the project is looked up; the Task document is built (its ids are drawn)
\* and tasks.insert_one is awaited
create_task(k) ==
  /\ At(k, "create_task", "first await")
  /\ LET actor == inflight[k].actor
         project_id == inflight[k].args[1]
         data == inflight[k].args[2]
     IN /\ IF ~HasId(projects, project_id)
           THEN /\ response' = Reply("create_task", 404, actor, <<project_id, data>>)
                /\ Return(k) /\ UNCHANGED next_id
           ELSE /\ next_id' = next_id + Len(data.checklist) + Len(data.deliverables) + 1
                /\ Suspend(k, [op |-> "create_task", pc |-> "tasks.insert_one", actor |-> actor,
                          args |-> <<project_id, data>>,
                          task |-> ManualTask(project_id, data, next_id)])
                /\ UNCHANGED response
        /\ UNCHANGED <<users, projects, tasks, notifications, config_modules, uploads,
                       generated, config_roles, config_user_types,
                       ops, RESEND_API_KEY, tokens>>

create_task_insert_one(k) ==
  /\ At(k, "create_task", "tasks.insert_one")
  /\ tasks' = Append(tasks, inflight[k].task)
  /\ response' = [task_id |-> inflight[k].task.id, task |-> inflight[k].task]
                   @@ Answer(inflight[k], 200)
  /\ Return(k)
  /\ UNCHANGED <<users, projects, notifications, config_modules, uploads, next_id, ops, RESEND_API_KEY, tokens,
                 generated, config_roles, config_user_types>>

\* the files delete_task unlinks: those named by a deliverable's file_url
FilesOfTask(t) ==
  { FileOfUrl(t.deliverables[i].file_url) :
      i \in { j \in DOMAIN t.deliverables : t.deliverables[j].file_url # NoUrl } }

\* delete_one({"id": id}): the first match is removed, if there is one
DeleteFirst(coll, id) ==
  IF HasId(coll, id) THEN RemoveAt(coll, IndexOfId(coll, id)) ELSE coll

\* the task is read and the files its deliverables name are unlinked
delete_task(k) ==
  /\ At(k, "delete_task", "first await")
  /\ LET actor == inflight[k].actor
         task_id == inflight[k].args[1]
     IN /\ IF ~HasId(tasks, task_id)
           THEN /\ response' = Reply("delete_task", 404, actor, <<task_id>>)
                /\ Return(k) /\ UNCHANGED uploads
           ELSE /\ uploads' = uploads \ FilesOfTask(FindOne(tasks, task_id))
                /\ Suspend(k, [op |-> "delete_task", pc |-> "tasks.delete_one", actor |-> actor,
                          args |-> <<task_id>>, task |-> FindOne(tasks, task_id)])
                /\ UNCHANGED response
        /\ UNCHANGED <<users, projects, tasks, notifications, config_modules, next_id,
                       generated, config_roles, config_user_types,
                       ops, RESEND_API_KEY, tokens>>

delete_task_delete_one(k) ==
  /\ At(k, "delete_task", "tasks.delete_one")
  /\ tasks' = DeleteFirst(tasks, inflight[k].args[1])
  /\ response' = Answer(inflight[k], 200)
  /\ Return(k)
  /\ UNCHANGED <<users, projects, notifications, config_modules, uploads, next_id, ops, RESEND_API_KEY, tokens,
                 generated, config_roles, config_user_types>>

(***************************************************************************)
(* Project update and deletion                                             *)
(***************************************************************************)
\* dict.update: the entries of new replace or extend those of cur
DictUpdate(cur, new) ==
  [k \in DOMAIN cur \cup DOMAIN new |-> IF k \in DOMAIN new THEN new[k] ELSE cur[k]]

\* faulty variants: every module of the new list is regenerated; no module is
\* ever removed
ModulesToAddAll(old, new) == new

ModulesToRemoveNone(old, new) == <<>>

\* modules_to_add / modules_to_remove
ModulesToAdd(old, new) == LET NotOld(m) == ~Contains(old, m) IN Filter(new, NotOld)

ModulesToRemove(old, new) == LET NotNew(m) == ~Contains(new, m) IN Filter(old, NotNew)

\* delete_many({"project_id": pid, "module_id": {"$in": ms}})
DeleteModuleTasks(ts, pid, ms) ==
  LET Kept(t) == ~(t.project_id = pid /\ Contains(ms, t.module_id)) IN Filter(ts, Kept)

\* faulty variant: the entries of removed modules are kept
FinalModuleCostsAll(cur, upd) ==
  CostsWithDefaults(IF "module_costs" \in upd.keys
                    THEN DictUpdate(cur.module_costs, upd.module_costs)
                    ELSE cur.module_costs,
                    upd.modules)

\* the module_costs written when the module list is sent
FinalModuleCosts(cur, upd) ==
  LET merged == IF "module_costs" \in upd.keys
                THEN DictUpdate(cur.module_costs, upd.module_costs)
                ELSE cur.module_costs
      with_defaults == CostsWithDefaults(merged, upd.modules)
  IN [m \in Range(upd.modules) |-> with_defaults[m]]

\* update_data after the billing rules, computed from the project read at
\* the first await: the keys to $set and their values
ProjectUpdateData(cur, upd) ==
  LET has_modules == "modules" \in upd.keys
      has_costs == "module_costs" \in upd.keys
      has_mode == "billing_mode" \in upd.keys
      current_mode == IF has_mode THEN upd.billing_mode ELSE cur.billing_mode
      costs == IF has_modules THEN FinalModuleCosts(cur, upd)
               ELSE IF has_costs THEN upd.module_costs ELSE cur.module_costs
      costs_set == has_modules \/ has_costs
      total_by_costs == costs_set /\ current_mode = "module"
      total_by_mode == has_mode /\ upd.billing_mode = "module"
  IN [keys |-> upd.keys
               \cup (IF has_modules THEN {"module_costs"} ELSE {})
               \cup (IF total_by_costs \/ total_by_mode THEN {"total_project_cost"} ELSE {}),
      name |-> IF "name" \in upd.keys THEN upd.name ELSE cur.name,
      modules |-> IF has_modules THEN upd.modules ELSE cur.modules,
      end_date |-> IF "end_date" \in upd.keys THEN upd.end_date ELSE cur.end_date,
      status |-> IF "status" \in upd.keys THEN upd.status ELSE cur.status,
      module_costs |-> costs,
      billing_mode |-> current_mode,
      cost_per_module |->
        IF "cost_per_module" \in upd.keys THEN upd.cost_per_module
        ELSE cur.cost_per_module,
      total_project_cost |->
        IF total_by_costs \/ total_by_mode THEN DictSum(costs)
        ELSE IF "total_project_cost" \in upd.keys THEN upd.total_project_cost
        ELSE cur.total_project_cost,
      enrollment_payment |->
        IF "enrollment_payment" \in upd.keys THEN upd.enrollment_payment
        ELSE cur.enrollment_payment]

\* $set of the keys of update_data on the stored project
ApplyProjectUpdate(stored, data) ==
  [stored EXCEPT
     !.name = IF "name" \in data.keys THEN data.name ELSE @,
     !.modules = IF "modules" \in data.keys THEN data.modules ELSE @,
     !.end_date = IF "end_date" \in data.keys THEN data.end_date ELSE @,
     !.status = IF "status" \in data.keys THEN data.status ELSE @,
     !.module_costs = IF "module_costs" \in data.keys THEN data.module_costs ELSE @,
     !.billing_mode = IF "billing_mode" \in data.keys THEN data.billing_mode ELSE @,
     !.cost_per_module =
        IF "cost_per_module" \in data.keys THEN data.cost_per_module ELSE @,
     !.total_project_cost =
        IF "total_project_cost" \in data.keys THEN data.total_project_cost ELSE @,
     !.enrollment_payment =
        IF "enrollment_payment" \in data.keys THEN data.enrollment_payment ELSE @]

\* the await that follows the generation or the insertion of the new tasks
AfterInsert(r) ==
  IF r.modules_to_remove # <<>> THEN "tasks.delete_many" ELSE "projects.update_one"

\* the project is read; a missing project is refused before an empty body;
\* the modules to add and to remove are computed from the project read
update_project(k) ==
  /\ At(k, "update_project", "first await")
  /\ LET actor == inflight[k].actor
         project_id == inflight[k].args[1]
         upd == inflight[k].args[2]
     IN /\ IF ~HasId(projects, project_id)
           THEN /\ response' = Reply("update_project", 404, actor, <<project_id, upd>>)
                /\ Return(k)
           ELSE IF upd.keys = {}
           THEN /\ response' = Reply("update_project", 400, actor, <<project_id, upd>>)
                /\ Return(k)
           ELSE LET current_project == FindOne(projects, project_id)
                    old_modules_list == current_project.modules
                    new_modules_list == IF "modules" \in upd.keys THEN upd.modules
                                        ELSE old_modules_list
                    r == [op |-> "update_project", actor |-> actor,
                          args |-> <<project_id, upd>>,
                          current_project |-> current_project,
                          modules_to_add |-> ModulesToAdd(old_modules_list, new_modules_list),
                          modules_to_remove |-> ModulesToRemove(old_modules_list, new_modules_list),
                          new_tasks |-> <<>>, db_modules |-> <<>>, deleted |-> <<>>]
                IN /\ Suspend(k, [pc |-> IF r.modules_to_add # <<>> THEN "get_modules_from_db.find"
                                    ELSE AfterInsert(r)] @@ r)
                   /\ UNCHANGED response
        /\ UNCHANGED <<users, projects, tasks, notifications, config_modules, uploads,
                       next_id, generated, config_roles, config_user_types,
                       ops, RESEND_API_KEY, tokens>>

\* get_modules_from_db has returned db_modules: the tasks of the added
\* modules are generated (their ids are drawn)
update_project_generate(k, db_modules) ==
  LET r == inflight[k]
      upd == r.args[2]
      end_date == IF "end_date" \in upd.keys THEN upd.end_date
                  ELSE r.current_project.end_date
      gen == generate_tasks_for_modules_async(r.args[1], r.modules_to_add, end_date,
                                              db_modules, next_id)
  IN /\ next_id' = gen.next
     /\ generated' = [project_id |-> r.args[1], modules |-> r.modules_to_add,
                      end_date |-> end_date, db_modules |-> db_modules,
                      first_id |-> next_id, tasks |-> gen.tasks]
     /\ Suspend(k, [pc |-> IF gen.tasks # <<>> THEN "tasks.insert_many" ELSE AfterInsert(r),
                    new_tasks |-> gen.tasks, db_modules |-> db_modules] @@ r)
     /\ UNCHANGED response

update_project_insert_many(k) ==
  /\ At(k, "update_project", "tasks.insert_many")
  /\ tasks' = tasks \o inflight[k].new_tasks
  /\ Suspend(k, [inflight[k] EXCEPT !.pc = AfterInsert(inflight[k])])
  /\ UNCHANGED <<users, projects, notifications, config_modules, uploads, next_id, ops, RESEND_API_KEY, tokens,
                 response, generated, config_roles, config_user_types>>

\* the tasks of the removed modules are deleted; their files are not touched
update_project_delete_many(k) ==
  /\ At(k, "update_project", "tasks.delete_many")
  /\ LET r == inflight[k]
         Removed(t) == t.project_id = r.args[1] /\ Contains(r.modules_to_remove, t.module_id)
     IN /\ tasks' = DeleteModuleTasks(tasks, r.args[1], r.modules_to_remove)
        /\ Suspend(k, [pc |-> "projects.update_one", deleted |-> Filter(tasks, Removed)] @@ r)
  /\ UNCHANGED <<users, projects, notifications, config_modules, uploads, next_id, ops, RESEND_API_KEY, tokens,
                 response, generated, config_roles, config_user_types>>

\* update_data is $set on the project stored now, if it is still stored
update_project_update_one(k) ==
  /\ At(k, "update_project", "projects.update_one")
  /\ LET r == inflight[k]
         project_id == r.args[1]
         update_data == ProjectUpdateData(r.current_project, r.args[2])
     IN /\ projects' = IF HasId(projects, project_id)
                       THEN [projects EXCEPT ![IndexOfId(projects, project_id)] =
                               ApplyProjectUpdate(@, update_data)]
                       ELSE projects
        /\ response' = [project_id |-> project_id, sent |-> r.args[2],
                        old_modules |-> r.current_project.modules,
                        current_project |-> r.current_project,
                        update_data |-> update_data,
                        new_tasks |-> r.new_tasks, db_modules |-> r.db_modules,
                        deleted |-> r.deleted] @@ Answer(r, 200)
  /\ Return(k)
  /\ UNCHANGED <<users, tasks, notifications, config_modules, uploads, next_id, ops, RESEND_API_KEY, tokens,
                 generated, config_roles, config_user_types>>

\* delete_many({"project_id": pid})
DeleteProjectTasks(ts, pid) == LET Kept(t) == t.project_id # pid IN Filter(ts, Kept)

\* projects.delete_one; only a deleted project has its tasks deleted next
delete_project(k) ==
  /\ At(k, "delete_project", "first await")
  /\ LET actor == inflight[k].actor
         project_id == inflight[k].args[1]
     IN /\ IF ~HasId(projects, project_id)
           THEN /\ response' = Reply("delete_project", 404, actor, <<project_id>>)
                /\ Return(k)
                /\ UNCHANGED projects
           ELSE /\ projects' = DeleteFirst(projects, project_id)
                /\ Suspend(k, [op |-> "delete_project", pc |-> "tasks.delete_many", actor |-> actor,
                          args |-> <<project_id>>])
                /\ UNCHANGED response
        /\ UNCHANGED <<users, tasks, notifications, config_modules, uploads, next_id,
                       generated, config_roles, config_user_types,
                       ops, RESEND_API_KEY, tokens>>

delete_project_delete_many(k) ==
  /\ At(k, "delete_project", "tasks.delete_many")
  /\ tasks' = DeleteProjectTasks(tasks, inflight[k].args[1])
  /\ response' = Answer(inflight[k], 200)
  /\ Return(k)
  /\ UNCHANGED <<users, projects, notifications, config_modules, uploads, next_id, ops, RESEND_API_KEY, tokens,
                 generated, config_roles, config_user_types>>

(***************************************************************************)
(* Deliverables                                                            *)
(***************************************************************************)
\* the first deliverable of the task with that id (the loop breaks on it)
HasDeliverable(t, did) == HasId(t.deliverables, did)

\* update_one({"id": task_id}, {"$set": {"deliverables": ds}}) on the first
\* task with that id, if there is one
SetDeliverables(ts, task_id, ds) ==
  IF HasId(ts, task_id) THEN [ts EXCEPT ![IndexOfId(ts, task_id)].deliverables = ds]
  ELSE ts

\* the task is read; the deliverable is built (its id is drawn, its
\* description is deliverable_data.description or "") and appended to the
\* array read; tasks.update_one is awaited
create_deliverable(k) ==
  /\ At(k, "create_deliverable", "first await")
  /\ LET actor == inflight[k].actor
         task_id == inflight[k].args[1]
         data == inflight[k].args[2]
     IN /\ IF ~HasId(tasks, task_id)
           THEN /\ response' = Reply("create_deliverable", 404, actor, <<task_id, data>>)
                /\ Return(k) /\ UNCHANGED next_id
           ELSE LET task == FindOne(tasks, task_id)
                    new_deliverable ==
                      [GenDeliverable(next_id, data.name, data.due_date)
                         EXCEPT !.description = IF TruthyStr(data.description)
                                                THEN data.description ELSE ""]
                IN /\ next_id' = next_id + 1
                   /\ Suspend(k, [op |-> "create_deliverable", pc |-> "tasks.update_one",
                             actor |-> actor, args |-> <<task_id, data>>, task |-> task,
                             new_deliverable |-> new_deliverable,
                             deliverables |-> Append(task.deliverables, new_deliverable)])
                   /\ UNCHANGED response
        /\ UNCHANGED <<users, projects, tasks, notifications, config_modules, uploads,
                       generated, config_roles, config_user_types,
                       ops, RESEND_API_KEY, tokens>>

create_deliverable_update_one(k) ==
  /\ At(k, "create_deliverable", "tasks.update_one")
  /\ tasks' = SetDeliverables(tasks, inflight[k].args[1], inflight[k].deliverables)
  /\ response' = [deliverable_id |-> inflight[k].new_deliverable.id,
                  task |-> inflight[k].task] @@ Answer(inflight[k], 200)
  /\ Return(k)
  /\ UNCHANGED <<users, projects, notifications, config_modules, uploads, next_id, ops, RESEND_API_KEY, tokens,
                 generated, config_roles, config_user_types>>

\* the sent keys of a DeliverableUpdate are copied into the deliverable
CopiedDeliverable(d, upd) ==
  [d EXCEPT
     !.name = IF "name" \in upd.keys THEN upd.name ELSE @,
     !.description = IF "description" \in upd.keys THEN upd.description ELSE @,
     !.status = IF "status" \in upd.keys THEN upd.status ELSE @,
     !.due_date = IF "due_date" \in upd.keys THEN upd.due_date ELSE @,
     !.feedback = IF "feedback" \in upd.keys THEN upd.feedback ELSE @]

\* update_data.status in ["approved", "rejected"]
IsReview(upd) == "status" \in upd.keys /\ upd.status \in {"approved", "rejected"}

\* the deliverable after the sent keys are copied and the reviewer is recorded
ReviewedDeliverable(d, upd, actor, now) ==
  IF IsReview(upd)
  THEN [CopiedDeliverable(d, upd) EXCEPT !.reviewed_by = actor.id, !.reviewed_at = now]
  ELSE CopiedDeliverable(d, upd)

\* task.get("user_type"): task documents carry assigned_user_type and no
\* user_type key, so the lookup yields None for every stored task
TaskUserType(task) == None

\* the answer of update_deliverable, with the users it mailed
update_deliverable_return(k, r, status) ==
  /\ response' = [task_id |-> r.args[1], deliverable_id |-> r.args[2], sent |-> r.args[3],
                  task |-> r.task, deliverables |-> r.deliverables,
                  emailed |-> r.emailed, mail |-> r.mail] @@ Answer(r, status)
  /\ Return(k)

\* the next turn of an e-mail loop over the users in emails: with a key
\* send_email_notification awaits the delivery thread, without one it returns
\* at once and the loop runs to its end
MailNext(k, r, emails) ==
  IF emails # <<>> /\ EmailAwaits(r.mail)
  THEN /\ Suspend(k, [pc |-> "asyncio.to_thread", emails |-> emails] @@ r)
       /\ UNCHANGED response
  ELSE update_deliverable_return(
         k, [r EXCEPT !.emailed = @ \o [i \in DOMAIN emails |-> emails[i].id]], 200)

\* the supervisors are back: those not yet listed, other than the reviewer,
\* join the recipients, and the e-mail loop starts
update_deliverable_subscribers(k, supervisors) ==
  LET r == inflight[k]
      NewSupervisor(s) == ~HasId(r.recipients, s.id) /\ s.id # r.actor.id
      recipients == r.recipients \o Filter(supervisors, NewSupervisor)
  IN /\ \E mail \in EmailOutcomesFor(recipients) :
          MailNext(k, [mail |-> mail, recipients |-> recipients] @@ r, recipients)
     /\ UNCHANGED next_id

\* the task is read; the sent keys are copied into the first deliverable
\* with the id and the reviewer is recorded; tasks.update_one is awaited
update_deliverable(k) ==
  /\ At(k, "update_deliverable", "first await")
  /\ LET actor == inflight[k].actor
         task_id == inflight[k].args[1]
         deliverable_id == inflight[k].args[2]
         upd == inflight[k].args[3]
     IN /\ IF ~HasId(tasks, task_id) \/ ~HasDeliverable(FindOne(tasks, task_id), deliverable_id)
           THEN /\ response' = Reply("update_deliverable", 404, actor,
                                     <<task_id, deliverable_id, upd>>)
                /\ Return(k)
           ELSE LET task == FindOne(tasks, task_id)
                    i == IndexOfId(task.deliverables, deliverable_id)
                IN /\ Suspend(k, [op |-> "update_deliverable", pc |-> "tasks.update_one",
                             actor |-> actor, args |-> <<task_id, deliverable_id, upd>>,
                             task |-> task,
                             deliverables |-> [task.deliverables EXCEPT
                                                 ![i] = ReviewedDeliverable(@, upd, actor, Now)],
                             recipients |-> <<>>, emailed |-> <<>>, mail |-> "none",
                             user_type |-> TaskUserType(task)])
                   /\ UNCHANGED response
        /\ UNCHANGED <<users, projects, tasks, notifications, config_modules, uploads,
                       next_id, generated, config_roles, config_user_types,
                       ops, RESEND_API_KEY, tokens>>

\* the array is written; a review then looks up the uploader, if the
\* deliverable has one, or goes on to the supervisors
update_deliverable_update_one(k) ==
  /\ At(k, "update_deliverable", "tasks.update_one")
  /\ LET r == inflight[k]
         target_deliverable == FindOne(r.deliverables, r.args[2])
     IN /\ tasks' = SetDeliverables(tasks, r.args[1], r.deliverables)
        /\ IF IsReview(r.args[3])
           THEN /\ Suspend(k, [r EXCEPT !.pc = IF TruthyId(target_deliverable.uploaded_by)
                                                THEN "users.find_one"
                                                ELSE "get_notification_subscribers.find"])
                /\ UNCHANGED response
           ELSE update_deliverable_return(k, r, 200)
  /\ UNCHANGED <<users, projects, notifications, config_modules, uploads, next_id, ops, RESEND_API_KEY, tokens,
                 generated, config_roles, config_user_types>>

update_deliverable_users_find_one(k) ==
  /\ At(k, "update_deliverable", "users.find_one")
  /\ LET r == inflight[k]
         uploaded_by == FindOne(r.deliverables, r.args[2]).uploaded_by
     IN Suspend(k, [pc |-> "get_notification_subscribers.find",
                    recipients |-> IF HasId(users, uploaded_by)
                                   THEN <<FindOne(users, uploaded_by)>> ELSE <<>>] @@ r)
  /\ UNCHANGED <<users, projects, tasks, notifications, config_modules, uploads,
                 next_id, ops, RESEND_API_KEY, tokens, response, generated, config_roles, config_user_types>>

\* the deliverable after a file is stored for it
UploadedDeliverable(d, file_name, actor, now) ==
  [d EXCEPT !.file_url = UrlOfFile(file_name),
            !.uploaded_at = now,
            !.uploaded_by = actor.id,
            !.status = IF d.status = "pending" THEN "in_review" ELSE d.status]

upload_deliverable_file_return(k, r, status) ==
  /\ response' = [task_id |-> r.args[1], deliverable_id |-> r.args[2],
                  file_url |-> UrlOfFile(r.unique_filename),
                  task |-> r.task, deliverables |-> r.deliverables,
                  notified |-> r.notified, mail |-> r.mail] @@ Answer(r, status)
  /\ Return(k)

\* the loop over managers from position i on: the next manager other than
\* the uploader gets a notification (its id is drawn, insert_one is awaited);
\* after the last one the handler returns
UploadNextManager(k, r, i) ==
  LET rest == {j \in i..Len(r.managers) : r.managers[j].id # r.actor.id}
  IN IF rest = {}
     THEN /\ upload_deliverable_file_return(k, r, 200)
          /\ UNCHANGED next_id
     ELSE LET j == CHOOSE j \in rest : \A h \in rest : j <= h
          IN /\ next_id' = next_id + 1
             /\ Suspend(k, [pc |-> "notifications.insert_one", manager |-> j,
                            notification |-> create_notification(
                               next_id, r.managers[j].id, "deliverable_uploaded",
                               r.task.project_id)] @@ r)
             /\ UNCHANGED response

\* the e-mails of one turn of the loop over managers
UploadMailNext(k, r, emails) ==
  IF emails # <<>> /\ EmailAwaits(r.mail)
  THEN /\ Suspend(k, [pc |-> "asyncio.to_thread", emails |-> emails] @@ r)
       /\ UNCHANGED <<next_id, response>>
  ELSE UploadNextManager(k, r, r.manager + 1)

\* all_managers = {m["id"]: m for m in managers} with the supervisors put in:
\* a supervisor replaces the manager with its id or is added at the end
AllManagers(managers, supervisors) ==
  LET Replaced(m) == IF HasId(supervisors, m.id)
                     THEN supervisors[CHOOSE i \in DOMAIN supervisors :
                            /\ supervisors[i].id = m.id
                            /\ \A j \in DOMAIN supervisors :
                                 supervisors[j].id = m.id => j <= i]
                     ELSE m
      New(s) == ~HasId(managers, s.id)
  IN [i \in DOMAIN managers |-> Replaced(managers[i])] \o Filter(supervisors, New)

\* the supervisors are back: everyone in all_managers but the uploader is mailed
upload_deliverable_file_subscribers(k, supervisors) ==
  LET r == inflight[k]
      NotActor(u) == u.id # r.actor.id
  IN UploadMailNext(k, r, Filter(AllManagers(r.managers, supervisors), NotActor))

\* the task is read; the file is stored under a fresh name and the
\* deliverable takes its URL; tasks.update_one is awaited
upload_deliverable_file(k) ==
  /\ At(k, "upload_deliverable_file", "first await")
  /\ LET actor == inflight[k].actor
         task_id == inflight[k].args[1]
         deliverable_id == inflight[k].args[2]
     IN /\ IF ~HasId(tasks, task_id) \/ ~HasDeliverable(FindOne(tasks, task_id), deliverable_id)
           THEN /\ response' = Reply("upload_deliverable_file", 404, actor,
                                     <<task_id, deliverable_id>>)
                /\ Return(k) /\ UNCHANGED <<uploads, next_id>>
           ELSE LET task == FindOne(tasks, task_id)
                    i == IndexOfId(task.deliverables, deliverable_id)
                    unique_filename == <<deliverable_id, next_id>>
                IN /\ uploads' = uploads \cup {unique_filename}
                   /\ next_id' = next_id + 1
                   /\ Suspend(k, [op |-> "upload_deliverable_file", pc |-> "tasks.update_one",
                             actor |-> actor, args |-> <<task_id, deliverable_id>>,
                             task |-> task, unique_filename |-> unique_filename,
                             deliverables |-> [task.deliverables EXCEPT
                                ![i] = UploadedDeliverable(@, unique_filename, actor, Now)],
                             managers |-> <<>>, notified |-> <<>>, mail |-> "none",
                             user_type |-> task.module_id])
                   /\ UNCHANGED response
        /\ UNCHANGED <<users, projects, tasks, notifications, config_modules,
                       generated, config_roles, config_user_types,
                       ops, RESEND_API_KEY, tokens>>

upload_deliverable_file_update_one(k) ==
  /\ At(k, "upload_deliverable_file", "tasks.update_one")
  /\ tasks' = SetDeliverables(tasks, inflight[k].args[1], inflight[k].deliverables)
  /\ Suspend(k, [inflight[k] EXCEPT !.pc = "projects.find_one"])
  /\ UNCHANGED <<users, projects, notifications, config_modules, uploads, next_id, ops, RESEND_API_KEY, tokens,
                 response, generated, config_roles, config_user_types>>

\* without the project nobody is told
upload_deliverable_file_projects_find_one(k) ==
  /\ At(k, "upload_deliverable_file", "projects.find_one")
  /\ IF HasId(projects, inflight[k].task.project_id)
     THEN /\ Suspend(k, [inflight[k] EXCEPT !.pc = "users.find"])
          /\ UNCHANGED response
     ELSE upload_deliverable_file_return(k, inflight[k], 200)
  /\ UNCHANGED <<users, projects, tasks, notifications, config_modules, uploads,
                 next_id, ops, RESEND_API_KEY, tokens, generated, config_roles, config_user_types>>

\* the admins and project managers are read and the loop over them starts
upload_deliverable_file_users_find(k) ==
  /\ At(k, "upload_deliverable_file", "users.find")
  /\ LET r == inflight[k]
         IsManager(u) == u.role \in {"admin", "project_manager"}
         NotActor(u) == u.id # r.actor.id
         managers == ToList(Filter(users, IsManager), SubscribersReadLimit)
     IN \E mail \in EmailOutcomesFor(Filter(managers, NotActor)) :
          UploadNextManager(k, [managers |-> managers, mail |-> mail] @@ r, 1)
  /\ UNCHANGED <<users, projects, tasks, notifications, config_modules, uploads, ops, RESEND_API_KEY, tokens,
                 generated, config_roles, config_user_types>>

\* the manager's notification is stored; the supervisors are read next
upload_deliverable_file_insert_one(k) ==
  /\ At(k, "upload_deliverable_file", "notifications.insert_one")
  /\ notifications' = Append(notifications, inflight[k].notification)
  /\ Suspend(k, [pc |-> "get_notification_subscribers.find",
                 notified |-> Append(inflight[k].notified, inflight[k].notification.user_id)]
                @@ inflight[k])
  /\ UNCHANGED <<users, projects, tasks, config_modules, uploads, next_id, ops, RESEND_API_KEY, tokens,
                 response, generated, config_roles, config_user_types>>

\* faulty variant: the files of every deliverable of the task are unlinked
FilesOfDeliverableAll(t, did) ==
  { FileOfUrl(t.deliverables[i].file_url) :
      i \in { j \in DOMAIN t.deliverables : t.deliverables[j].file_url # NoUrl } }

\* the files delete_deliverable unlinks (before it looks whether a deliverable
\* was removed)
FilesOfDeliverable(t, did) ==
  { FileOfUrl(t.deliverables[i].file_url) :
      i \in { j \in DOMAIN t.deliverables :
                t.deliverables[j].id = did /\ t.deliverables[j].file_url # NoUrl } }

WithoutDeliverable(ds, did) == LET Other(d) == d.id # did IN Filter(ds, Other)

\* the task is read, the file of the deliverable is unlinked and the array
\* without the deliverable is built; tasks.update_one is awaited
delete_deliverable(k) ==
  /\ At(k, "delete_deliverable", "first await")
  /\ LET actor == inflight[k].actor
         task_id == inflight[k].args[1]
         deliverable_id == inflight[k].args[2]
     IN /\ IF ~HasId(tasks, task_id)
           THEN /\ response' = Reply("delete_deliverable", 404, actor, <<task_id, deliverable_id>>)
                /\ Return(k) /\ UNCHANGED uploads
           ELSE LET task == FindOne(tasks, task_id)
                IN /\ uploads' = uploads \ FilesOfDeliverable(task, deliverable_id)
                   /\ IF ~HasDeliverable(task, deliverable_id)
                      THEN /\ response' = Reply("delete_deliverable", 404, actor,
                                                <<task_id, deliverable_id>>)
                           /\ Return(k)
                      ELSE /\ Suspend(k, [op |-> "delete_deliverable", pc |-> "tasks.update_one",
                                     actor |-> actor, args |-> <<task_id, deliverable_id>>,
                                     task |-> task,
                                     deliverables |-> WithoutDeliverable(task.deliverables,
                                                                         deliverable_id)])
                           /\ UNCHANGED response
        /\ UNCHANGED <<users, projects, tasks, notifications, config_modules, next_id,
                       generated, config_roles, config_user_types,
                       ops, RESEND_API_KEY, tokens>>

delete_deliverable_update_one(k) ==
  /\ At(k, "delete_deliverable", "tasks.update_one")
  /\ tasks' = SetDeliverables(tasks, inflight[k].args[1], inflight[k].deliverables)
  /\ response' = [task |-> inflight[k].task, deliverables |-> inflight[k].deliverables]
                   @@ Answer(inflight[k], 200)
  /\ Return(k)
  /\ UNCHANGED <<users, projects, notifications, config_modules, uploads, next_id, ops, RESEND_API_KEY, tokens,
                 generated, config_roles, config_user_types>>

(***************************************************************************)
(* Notifications                                                           *)
(***************************************************************************)
\* faulty variant: the filter does not look at the target user
OwnNotificationAnyUser(n, notification_id, actor) == n.id = notification_id

\* the filter {"id": notification_id, "user_id": current_user["id"]}
OwnNotification(n, notification_id, actor) ==
  n.id = notification_id /\ n.user_id = actor.id

\* update_one sets read on the first notification the filter matches
mark_notification_read(k) ==
  /\ At(k, "mark_notification_read", "first await")
  /\ LET r == inflight[k]
         matched == {i \in DOMAIN notifications :
                       OwnNotification(notifications[i], r.args[1], r.actor)}
     IN IF matched = {}
        THEN /\ response' = Answer(r, 404)
             /\ UNCHANGED notifications
        ELSE LET first == CHOOSE i \in matched : \A j \in matched : i <= j
             IN /\ notifications' = [notifications EXCEPT ![first].read = TRUE]
                /\ response' = Answer(r, 200)
  /\ Return(k)
  /\ UNCHANGED <<users, projects, tasks, config_modules, uploads, next_id, generated,
                 config_roles, config_user_types, ops, RESEND_API_KEY, tokens>>

\* update_many({"user_id": current_user["id"]}, {"$set": {"read": True}})
mark_all_notifications_read(k) ==
  /\ At(k, "mark_all_notifications_read", "first await")
  /\ notifications' = [i \in DOMAIN notifications |->
                         IF notifications[i].user_id = inflight[k].actor.id
                         THEN [notifications[i] EXCEPT !.read = TRUE]
                         ELSE notifications[i]]
  /\ response' = Answer(inflight[k], 200)
  /\ Return(k)
  /\ UNCHANGED <<users, projects, tasks, config_modules, uploads, next_id, generated,
                 config_roles, config_user_types, ops, RESEND_API_KEY, tokens>>

(***************************************************************************)
(* User administration                                                     *)
(***************************************************************************)
get_users(k) ==
  /\ At(k, "get_users", "first await")
  /\ response' = [count |-> Len(ToList(users, UsersReadLimit))] @@ Answer(inflight[k], 200)
  /\ Return(k)
  /\ UNCHANGED <<users, projects, tasks, notifications, config_modules, uploads,
                 next_id, generated, config_roles, config_user_types,
                 ops, RESEND_API_KEY, tokens>>

\* $set of the sent keys on the first user with the id
ApplyUserUpdate(us, user_id, upd) ==
  [us EXCEPT ![IndexOfId(us, user_id)] =
     [@ EXCEPT !.role = IF "role" \in upd.keys THEN upd.role ELSE @,
               !.user_type = IF "user_type" \in upd.keys THEN upd.user_type ELSE @]]

\* users.update_one; matched_count 0 is answered 404
update_user(k) ==
  /\ At(k, "update_user", "first await")
  /\ LET r == inflight[k]
     IN IF ~HasId(users, r.args[1])
        THEN /\ response' = Answer(r, 404)
             /\ UNCHANGED users
        ELSE /\ users' = ApplyUserUpdate(users, r.args[1], r.args[2])
             /\ response' = Answer(r, 200)
  /\ Return(k)
  /\ UNCHANGED <<projects, tasks, notifications, config_modules, uploads,
                 next_id, generated, config_roles, config_user_types,
                 ops, RESEND_API_KEY, tokens>>

\* users.delete_one; deleted_count 0 is answered 404
delete_user(k) ==
  /\ At(k, "delete_user", "first await")
  /\ LET r == inflight[k]
     IN IF ~HasId(users, r.args[1])
        THEN /\ response' = Answer(r, 404)
             /\ UNCHANGED users
        ELSE /\ users' = DeleteFirst(users, r.args[1])
             /\ response' = Answer(r, 200)
  /\ Return(k)
  /\ UNCHANGED <<projects, tasks, notifications, config_modules, uploads,
                 next_id, generated, config_roles, config_user_types,
                 ops, RESEND_API_KEY, tokens>>

(***************************************************************************)
(* Role and user type configuration.  A stored document carries its _id:   *)
(* insert_one writes the ObjectId it draws into the dictionary it is given, *)
(* so the i-th dictionary of DEFAULT_USER_TYPES or DEFAULT_ROLES keeps one  *)
(* ObjectId, written here as i, from its first insertion on; a document    *)
(* built for the request gets an ObjectId of its own, written as NoId.     *)
(***************************************************************************)
DEFAULT_USER_TYPES ==
  << [id |-> "comercial", name |-> "Comercial"],
     [id |-> "marketing", name |-> "Marketing"],
     [id |-> "administracion", name |-> "Administracion"],
     [id |-> "creativo", name |-> "Creativo"],
     [id |-> "contenido", name |-> "Contenido"],
     [id |-> "academico", name |-> "Academico"],
     [id |-> "desarrollo", name |-> "Desarrollo"],
     [id |-> "direccion", name |-> "Direccion"] >>

DEFAULT_ROLES ==
  << [id |-> "admin", name |-> "Administrador"],
     [id |-> "project_manager", name |-> "Project Manager"],
     [id |-> "collaborator", name |-> "Colaborador"] >>

ConfigReadLimit == 100

\* update_one({"id": id}, {"$set": data.model_dump()}): the first match takes
\* every field of the body, its id included, and keeps its _id
SetFirst(coll, id, data) ==
  [coll EXCEPT ![IndexOfId(coll, id)] = data @@ [_id |-> @._id]]

\* the collection a loader reads and seeds
ConfigStored(loader) ==
  IF loader = "get_user_types_from_db" THEN config_user_types ELSE config_roles

\* get_user_types_from_db / get_roles_from_db (loader) read the collection:
\* a stored list is returned; an empty read starts the loop that inserts the
\* defaults one await at a time
ConfigRead(k, loader) ==
  LET r == inflight[k]
      found == ToList(ConfigStored(loader), ConfigReadLimit)
  IN IF found # <<>>
     THEN /\ response' = [count |-> Len(found)] @@ Answer(r, 200)
          /\ Return(k)
     ELSE /\ Suspend(k, [pc |-> loader \o ".insert_one", seeded |-> 0] @@ r)
          /\ UNCHANGED response

\* one insert_one of the seeding loop: the dictionary of the defaults is
\* inserted as it is, so the insertion raises DuplicateKeyError when a stored
\* document carries its _id already; after the last one the handler returns
\* the defaults themselves, each now carrying the ObjectId insert_one gave
\* it, which the JSON encoding of the answer cannot render: the collection
\* is seeded and the request is answered 500
ConfigSeeded(k, defaults, stored) ==
  LET r == inflight[k]
      i == r.seeded + 1
      Inserted(d) == d._id = i
  IN IF Filter(stored, Inserted) # <<>>
     THEN /\ response' = Answer(r, 500)
          /\ Return(k)
          /\ UNCHANGED <<config_user_types, config_roles>>
     ELSE /\ IF r.pc = "get_user_types_from_db.insert_one"
             THEN /\ config_user_types' = Append(stored, [_id |-> i] @@ defaults[i])
                  /\ UNCHANGED config_roles
             ELSE /\ config_roles' = Append(stored, [_id |-> i] @@ defaults[i])
                  /\ UNCHANGED config_user_types
          /\ IF i < Len(defaults)
             THEN /\ Suspend(k, [r EXCEPT !.seeded = i])
                  /\ UNCHANGED response
             ELSE /\ response' = [count |-> Len(defaults)] @@ Answer(r, 500)
                  /\ Return(k)

\* GET /user-types needs no login
get_user_types ==
  /\ Arrived
  /\ Begin([op |-> "get_user_types", pc |-> "get_user_types_from_db.find",
            actor |-> [id |-> NoId], args |-> <<>>])
  /\ UNCHANGED <<users, projects, tasks, notifications, config_modules, uploads,
                 next_id, response, generated, config_roles, config_user_types>>

\* config_user_types.find of get_user_types and admin_get_user_types
get_user_types_from_db_find(k) ==
  /\ inflight[k].pc = "get_user_types_from_db.find"
  /\ ConfigRead(k, "get_user_types_from_db")
  /\ UNCHANGED <<users, projects, tasks, notifications, config_modules, uploads,
                 next_id, ops, RESEND_API_KEY, tokens, generated, config_roles,
                 config_user_types>>

get_user_types_from_db_insert_one(k) ==
  /\ inflight[k].pc = "get_user_types_from_db.insert_one"
  /\ ConfigSeeded(k, DEFAULT_USER_TYPES, config_user_types)
  /\ UNCHANGED <<users, projects, tasks, notifications, config_modules, uploads,
                 next_id, ops, RESEND_API_KEY, tokens, generated>>

\* config_user_types.find_one: an id already stored is refused
admin_create_user_type(k) ==
  /\ At(k, "admin_create_user_type", "first await")
  /\ LET r == inflight[k]
     IN IF HasId(config_user_types, r.args[1].id)
        THEN /\ response' = Answer(r, 400)
             /\ Return(k)
        ELSE /\ Suspend(k, [r EXCEPT !.pc = "config_user_types.insert_one"])
             /\ UNCHANGED response
  /\ UNCHANGED <<users, projects, tasks, notifications, config_modules, uploads,
                 next_id, generated, config_roles, config_user_types,
                 ops, RESEND_API_KEY, tokens>>

admin_create_user_type_insert_one(k) ==
  /\ At(k, "admin_create_user_type", "config_user_types.insert_one")
  /\ config_user_types' = Append(config_user_types, [_id |-> NoId] @@ inflight[k].args[1])
  /\ response' = Answer(inflight[k], 200)
  /\ Return(k)
  /\ UNCHANGED <<users, projects, tasks, notifications, config_modules, uploads,
                 next_id, ops, RESEND_API_KEY, tokens, generated, config_roles>>

\* config_user_types.update_one; matched_count 0 is answered 404
admin_update_user_type(k) ==
  /\ At(k, "admin_update_user_type", "first await")
  /\ LET r == inflight[k]
     IN IF HasId(config_user_types, r.args[1])
        THEN /\ config_user_types' = SetFirst(config_user_types, r.args[1], r.args[2])
             /\ response' = Answer(r, 200)
        ELSE /\ response' = Answer(r, 404)
             /\ UNCHANGED config_user_types
  /\ Return(k)
  /\ UNCHANGED <<users, projects, tasks, notifications, config_modules, uploads,
                 next_id, generated, config_roles, ops, RESEND_API_KEY, tokens>>

\* config_user_types.delete_one; deleted_count 0 is answered 404
admin_delete_user_type(k) ==
  /\ At(k, "admin_delete_user_type", "first await")
  /\ LET r == inflight[k]
     IN IF HasId(config_user_types, r.args[1])
        THEN /\ config_user_types' = DeleteFirst(config_user_types, r.args[1])
             /\ response' = Answer(r, 200)
        ELSE /\ response' = Answer(r, 404)
             /\ UNCHANGED config_user_types
  /\ Return(k)
  /\ UNCHANGED <<users, projects, tasks, notifications, config_modules, uploads,
                 next_id, generated, config_roles, ops, RESEND_API_KEY, tokens>>

\* GET /roles needs no login
get_roles ==
  /\ Arrived
  /\ Begin([op |-> "get_roles", pc |-> "get_roles_from_db.find",
            actor |-> [id |-> NoId], args |-> <<>>])
  /\ UNCHANGED <<users, projects, tasks, notifications, config_modules, uploads,
                 next_id, response, generated, config_roles, config_user_types>>

\* config_roles.find of get_roles and admin_get_roles
get_roles_from_db_find(k) ==
  /\ inflight[k].pc = "get_roles_from_db.find"
  /\ ConfigRead(k, "get_roles_from_db")
  /\ UNCHANGED <<users, projects, tasks, notifications, config_modules, uploads,
                 next_id, ops, RESEND_API_KEY, tokens, generated, config_roles,
                 config_user_types>>

get_roles_from_db_insert_one(k) ==
  /\ inflight[k].pc = "get_roles_from_db.insert_one"
  /\ ConfigSeeded(k, DEFAULT_ROLES, config_roles)
  /\ UNCHANGED <<users, projects, tasks, notifications, config_modules, uploads,
                 next_id, ops, RESEND_API_KEY, tokens, generated>>

\* config_roles.find_one: an id already stored is refused
admin_create_role(k) ==
  /\ At(k, "admin_create_role", "first await")
  /\ LET r == inflight[k]
     IN IF HasId(config_roles, r.args[1].id)
        THEN /\ response' = Answer(r, 400)
             /\ Return(k)
        ELSE /\ Suspend(k, [r EXCEPT !.pc = "config_roles.insert_one"])
             /\ UNCHANGED response
  /\ UNCHANGED <<users, projects, tasks, notifications, config_modules, uploads,
                 next_id, generated, config_roles, config_user_types,
                 ops, RESEND_API_KEY, tokens>>

admin_create_role_insert_one(k) ==
  /\ At(k, "admin_create_role", "config_roles.insert_one")
  /\ config_roles' = Append(config_roles, [_id |-> NoId] @@ inflight[k].args[1])
  /\ response' = Answer(inflight[k], 200)
  /\ Return(k)
  /\ UNCHANGED <<users, projects, tasks, notifications, config_modules, uploads,
                 next_id, ops, RESEND_API_KEY, tokens, generated, config_user_types>>

\* config_roles.update_one; matched_count 0 is answered 404
admin_update_role(k) ==
  /\ At(k, "admin_update_role", "first await")
  /\ LET r == inflight[k]
     IN IF HasId(config_roles, r.args[1])
        THEN /\ config_roles' = SetFirst(config_roles, r.args[1], r.args[2])
             /\ response' = Answer(r, 200)
        ELSE /\ response' = Answer(r, 404)
             /\ UNCHANGED config_roles
  /\ Return(k)
  /\ UNCHANGED <<users, projects, tasks, notifications, config_modules, uploads,
                 next_id, generated, config_user_types, ops, RESEND_API_KEY, tokens>>

\* config_roles.delete_one (a built-in id was refused before); deleted_count 0
\* is answered 404
admin_delete_role(k) ==
  /\ At(k, "admin_delete_role", "first await")
  /\ LET r == inflight[k]
     IN IF HasId(config_roles, r.args[1])
        THEN /\ config_roles' = DeleteFirst(config_roles, r.args[1])
             /\ response' = Answer(r, 200)
        ELSE /\ response' = Answer(r, 404)
             /\ UNCHANGED config_roles
  /\ Return(k)
  /\ UNCHANGED <<users, projects, tasks, notifications, config_modules, uploads,
                 next_id, generated, config_user_types, ops, RESEND_API_KEY, tokens>>

(***************************************************************************)
(* Module and task template edits                                          *)
(***************************************************************************)
\* update_one({"id": id}, {"$set": {"tasks": tts}}) on the first module with
\* that id, if there is one
SetModuleTasks(cfg, id, tts) ==
  IF HasId(cfg, id) THEN [cfg EXCEPT ![IndexOfId(cfg, id)].tasks = tts] ELSE cfg

\* data.name.lower().replace(" ", "_")[:20] on the names clients send
ModuleIdOfName(name) ==
  CASE name = "Extra" -> "extra"
    [] name = "QA Lab" -> "qa_lab"

\* config_modules.find_one: an id already stored is refused
admin_create_module(k) ==
  /\ At(k, "admin_create_module", "first await")
  /\ LET r == inflight[k]
         name == r.args[1]
     IN IF HasId(config_modules, ModuleIdOfName(name))
        THEN /\ response' = Answer(r, 400)
             /\ Return(k)
        ELSE /\ Suspend(k, [pc |-> "config_modules.insert_one",
                            module_doc |-> [id |-> ModuleIdOfName(name), name |-> name,
                                            tasks |-> <<>>]] @@ r)
             /\ UNCHANGED response
  /\ UNCHANGED <<users, projects, tasks, notifications, config_modules, uploads,
                 next_id, generated, config_roles, config_user_types,
                 ops, RESEND_API_KEY, tokens>>

admin_create_module_insert_one(k) ==
  /\ At(k, "admin_create_module", "config_modules.insert_one")
  /\ config_modules' = Append(config_modules, inflight[k].module_doc)
  /\ response' = Answer(inflight[k], 200)
  /\ Return(k)
  /\ UNCHANGED <<users, projects, tasks, notifications, uploads, next_id, ops, RESEND_API_KEY, tokens,
                 generated, config_roles, config_user_types>>

\* the sent name is $set on the first module with the id (an empty body was
\* refused before); matched_count 0 is answered 404
admin_update_module(k) ==
  /\ At(k, "admin_update_module", "first await")
  /\ LET r == inflight[k]
         module_id == r.args[1]
         upd == r.args[2]
     IN IF ~HasId(config_modules, module_id)
        THEN /\ response' = Answer(r, 404)
             /\ UNCHANGED config_modules
        ELSE /\ config_modules' =
                  [config_modules EXCEPT ![IndexOfId(config_modules, module_id)].name =
                     IF "name" \in upd.keys THEN upd.name ELSE @]
             /\ response' = Answer(r, 200)
  /\ Return(k)
  /\ UNCHANGED <<users, projects, tasks, notifications, uploads, next_id, generated,
                 config_roles, config_user_types, ops, RESEND_API_KEY, tokens>>

\* config_modules.delete_one; deleted_count 0 is answered 404
admin_delete_module(k) ==
  /\ At(k, "admin_delete_module", "first await")
  /\ LET r == inflight[k]
     IN IF HasId(config_modules, r.args[1])
        THEN /\ config_modules' = DeleteFirst(config_modules, r.args[1])
             /\ response' = Answer(r, 200)
        ELSE /\ response' = Answer(r, 404)
             /\ UNCHANGED config_modules
  /\ Return(k)
  /\ UNCHANGED <<users, projects, tasks, notifications, uploads, next_id, generated,
                 config_roles, config_user_types, ops, RESEND_API_KEY, tokens>>

\* the answer of a template edit, with the list read and the list written
TemplatesWritten(k) ==
  /\ config_modules' = SetModuleTasks(config_modules, inflight[k].args[1],
                                      inflight[k].tasks)
  /\ response' = [read |-> inflight[k].module.tasks, written |-> inflight[k].tasks]
                   @@ Answer(inflight[k], 200)
  /\ Return(k)
  /\ UNCHANGED <<users, projects, tasks, notifications, uploads, next_id, ops, RESEND_API_KEY, tokens,
                 generated, config_roles, config_user_types>>

\* str(uuid.uuid4()) as the path segment that names the template later
TemplateId(n) == ToString(n)

\* the module is read; the template is built (its id is drawn) and appended
\* to the list read; config_modules.update_one is awaited
admin_create_task_template(k) ==
  /\ At(k, "admin_create_task_template", "first await")
  /\ LET r == inflight[k]
         module_id == r.args[1]
         data == r.args[2]
     IN IF HasId(config_modules, module_id)
        THEN LET task_template == [id |-> TemplateId(next_id), title |-> data.title,
                                   description |-> data.description,
                                   assigned_user_type |-> data.assigned_user_type,
                                   checklist |-> data.checklist,
                                   deliverables |-> data.deliverables]
                 module == FindOne(config_modules, module_id)
             IN /\ next_id' = next_id + 1
                /\ Suspend(k, [pc |-> "config_modules.update_one", module |-> module,
                               tasks |-> Append(module.tasks, task_template)] @@ r)
                /\ UNCHANGED response
        ELSE /\ response' = Answer(r, 404)
             /\ Return(k)
             /\ UNCHANGED next_id
  /\ UNCHANGED <<users, projects, tasks, notifications, config_modules, uploads,
                 generated, config_roles, config_user_types, ops, RESEND_API_KEY, tokens>>

admin_create_task_template_update_one(k) ==
  /\ At(k, "admin_create_task_template", "config_modules.update_one")
  /\ TemplatesWritten(k)

\* task.get("id") == task_id or task.get("title") == task_id, for the path
\* segment task_id
TemplateMatches(tt, task_id) ==
  TemplateGet(tt, "id", None) = task_id \/ TemplateGet(tt, "title", None) = task_id

\* the first matching template takes every sent key: tasks[i][key] = value
UpdatedTemplates(tts, task_id, upd) ==
  LET k == CHOOSE i \in DOMAIN tts :
             /\ TemplateMatches(tts[i], task_id)
             /\ \A j \in DOMAIN tts : TemplateMatches(tts[j], task_id) => i <= j
  IN [tts EXCEPT ![k] =
        [key \in DOMAIN tts[k] \cup upd.keys |->
           IF key \in upd.keys THEN upd[key] ELSE tts[k][key]]]

\* the module is read and the first matching template of the list read is
\* changed; config_modules.update_one is awaited
admin_update_task_template(k) ==
  /\ At(k, "admin_update_task_template", "first await")
  /\ LET r == inflight[k]
         module_id == r.args[1]
         task_id == r.args[2]
     IN IF \/ ~HasId(config_modules, module_id)
           \/ ~\E i \in DOMAIN FindOne(config_modules, module_id).tasks :
                  TemplateMatches(FindOne(config_modules, module_id).tasks[i], task_id)
        THEN /\ response' = Answer(r, 404)
             /\ Return(k)
        ELSE LET module == FindOne(config_modules, module_id)
             IN /\ Suspend(k, [pc |-> "config_modules.update_one", module |-> module,
                               tasks |-> UpdatedTemplates(module.tasks, task_id, r.args[3])]
                              @@ r)
                /\ UNCHANGED response
  /\ UNCHANGED <<users, projects, tasks, notifications, config_modules, uploads,
                 next_id, generated, config_roles, config_user_types,
                 ops, RESEND_API_KEY, tokens>>

admin_update_task_template_update_one(k) ==
  /\ At(k, "admin_update_task_template", "config_modules.update_one")
  /\ TemplatesWritten(k)

\* the templates of the list read whose id and title both differ from the
\* path segment are kept; config_modules.update_one is awaited if any was
\* dropped
admin_delete_task_template(k) ==
  /\ At(k, "admin_delete_task_template", "first await")
  /\ LET r == inflight[k]
         module_id == r.args[1]
         Kept(tt) == ~TemplateMatches(tt, r.args[2])
     IN IF \/ ~HasId(config_modules, module_id)
           \/ Len(Filter(FindOne(config_modules, module_id).tasks, Kept))
                = Len(FindOne(config_modules, module_id).tasks)
        THEN /\ response' = Answer(r, 404)
             /\ Return(k)
        ELSE LET module == FindOne(config_modules, module_id)
             IN /\ Suspend(k, [pc |-> "config_modules.update_one", module |-> module,
                               tasks |-> Filter(module.tasks, Kept)] @@ r)
                /\ UNCHANGED response
  /\ UNCHANGED <<users, projects, tasks, notifications, config_modules, uploads,
                 next_id, generated, config_roles, config_user_types,
                 ops, RESEND_API_KEY, tokens>>

admin_delete_task_template_update_one(k) ==
  /\ At(k, "admin_delete_task_template", "config_modules.update_one")
  /\ TemplatesWritten(k)

\* the module is read and its task templates are returned
admin_get_module_tasks(k) ==
  /\ At(k, "admin_get_module_tasks", "first await")
  /\ LET r == inflight[k]
     IN response' =
          IF HasId(config_modules, r.args[1])
          THEN [module_tasks |-> FindOne(config_modules, r.args[1]).tasks] @@ Answer(r, 200)
          ELSE Answer(r, 404)
  /\ Return(k)
  /\ UNCHANGED <<users, projects, tasks, notifications, config_modules, uploads,
                 next_id, generated, config_roles, config_user_types,
                 ops, RESEND_API_KEY, tokens>>

\* users.count_documents; five more counts follow
admin_get_stats(k) ==
  /\ At(k, "admin_get_stats", "first await")
  /\ Suspend(k, [pc |-> "count_documents", await |-> 2, counts |-> <<Len(users)>>]
                @@ inflight[k])
  /\ UNCHANGED <<users, projects, tasks, notifications, config_modules, uploads,
                 next_id, response, generated, config_roles, config_user_types,
                 ops, RESEND_API_KEY, tokens>>

\* the next of projects, tasks, config_modules, config_user_types and
\* config_roles is counted; after the sixth count the counts are returned
admin_get_stats_count_documents(k) ==
  /\ At(k, "admin_get_stats", "count_documents")
  /\ LET r == inflight[k]
         counted == <<Len(users), Len(projects), Len(tasks), Len(config_modules),
                      Len(config_user_types), Len(config_roles)>>
         counts == Append(r.counts, counted[r.await])
     IN IF r.await < 6
        THEN /\ Suspend(k, [r EXCEPT !.await = @ + 1, !.counts = counts])
             /\ UNCHANGED response
        ELSE /\ response' = [stats |-> [users |-> counts[1], projects |-> counts[2],
                                        tasks |-> counts[3], modules |-> counts[4],
                                        user_types |-> counts[5], roles |-> counts[6]]]
                              @@ Answer(r, 200)
             /\ Return(k)
  /\ UNCHANGED <<users, projects, tasks, notifications, config_modules, uploads,
                 next_id, ops, RESEND_API_KEY, tokens, generated, config_roles, config_user_types>>
(***************************************************************************)
(* Registration                                                            *)
(***************************************************************************)
HasEmail(us, email) == \E i \in DOMAIN us : us[i].email = email

\* users.find_one({"email": ...}): a stored e-mail is refused; otherwise
\* users.count_documents is awaited
register(data) ==
  /\ Arrived
  /\ IF HasEmail(users, data.email)
     THEN /\ response' = [op |-> "register", status |-> 400, actor |-> NoId,
                          args |-> <<data>>]
          /\ UNCHANGED inflight
     ELSE /\ Begin([op |-> "register", pc |-> "count_documents",
                    actor |-> [id |-> NoId], args |-> <<data>>])
          /\ UNCHANGED response
  /\ UNCHANGED <<users, projects, tasks, notifications, config_modules, uploads,
                 next_id, generated, config_roles, config_user_types>>

\* the role is chosen from the count, the User is built (its id is drawn) and
\* users.insert_one is awaited
register_count_documents(k) ==
  /\ At(k, "register", "count_documents")
  /\ LET data == inflight[k].args[1]
         role == IF Len(users) = 0 THEN "admin" ELSE data.role
     IN Suspend(k, [pc |-> "users.insert_one",
                    user |-> [id |-> next_id, email |-> data.email, role |-> role,
                              user_type |-> data.user_type]] @@ inflight[k])
  /\ next_id' = next_id + 1
  /\ UNCHANGED <<users, projects, tasks, notifications, config_modules, uploads,
                 ops, RESEND_API_KEY, tokens, response, generated, config_roles, config_user_types>>

register_insert_one(k) ==
  /\ At(k, "register", "users.insert_one")
  /\ users' = Append(users, inflight[k].user)
  /\ response' = [user |-> inflight[k].user] @@ Answer(inflight[k], 200)
  /\ tokens' = tokens \cup {inflight[k].user.id}
  /\ Return(k)
  /\ UNCHANGED <<projects, tasks, notifications, config_modules, uploads, next_id,
                 ops, RESEND_API_KEY, generated, config_roles, config_user_types>>

(***************************************************************************)
(* Awaits inside the functions the handlers share.  The request resumed    *)
(* is inflight[k]; when the function returns, the calling handler goes on  *)
(* in the same step.                                                       *)
(***************************************************************************)
\* GET /modules and GET /admin/modules answer with what the loader returned
get_modules_return(k, db_modules) ==
  /\ response' = [modules |-> [i \in DOMAIN db_modules |->
                                 [id |-> db_modules[i].id, name |-> db_modules[i].name,
                                  tasks_count |-> Len(db_modules[i].tasks)]]]
                   @@ Answer(inflight[k], 200)
  /\ Return(k)
  /\ UNCHANGED <<next_id, generated>>

\* get_modules_from_db returns db_modules to the handler that called it
modules_returned(k, db_modules) ==
  CASE inflight[k].op = "create_project" -> create_project_generate(k, db_modules)
    [] inflight[k].op = "update_project" -> update_project_generate(k, db_modules)
    [] inflight[k].op = "get_tasks" -> get_tasks_return(k, db_modules)
    [] inflight[k].op = "export_project_pdf" -> export_project_pdf_return(k, db_modules)
    [] inflight[k].op = "get_dashboard_stats" -> get_dashboard_stats_modules(k, db_modules)
    [] inflight[k].op \in {"get_modules", "admin_get_modules"} ->
         get_modules_return(k, db_modules)

\* config_modules.find: a stored configuration is returned; an empty read
\* starts the loop over MODULE_TEMPLATES
get_modules_from_db_find(k) ==
  /\ inflight[k].pc = "get_modules_from_db.find"
  /\ LET modules == ToList(config_modules, ModulesReadLimit)
     IN IF modules = <<>>
        THEN /\ Suspend(k, [pc |-> "get_modules_from_db.insert_one", seeded |-> 0]
                             @@ inflight[k])
             /\ UNCHANGED <<next_id, response, generated>>
        ELSE modules_returned(k, modules)
  /\ UNCHANGED <<users, projects, tasks, notifications, config_modules, uploads, ops, RESEND_API_KEY, tokens,
                 config_roles, config_user_types>>

\* one insert_one of the loop; the second read follows the last one
get_modules_from_db_insert_one(k) ==
  /\ inflight[k].pc = "get_modules_from_db.insert_one"
  /\ config_modules' = Append(config_modules,
                              SeedDoc(MODULE_TEMPLATES[inflight[k].seeded + 1]))
  /\ Suspend(k, IF inflight[k].seeded + 1 < Len(MODULE_TEMPLATES)
                THEN [inflight[k] EXCEPT !.seeded = @ + 1]
                ELSE [inflight[k] EXCEPT !.seeded = @ + 1,
                                         !.pc = "get_modules_from_db.find_again"])
  /\ UNCHANGED <<users, projects, tasks, notifications, uploads, next_id, ops, RESEND_API_KEY, tokens,
                 response, generated, config_roles, config_user_types>>

\* the read after seeding is what the loader returns
get_modules_from_db_find_again(k) ==
  /\ inflight[k].pc = "get_modules_from_db.find_again"
  /\ modules_returned(k, ToList(config_modules, ModulesReadLimit))
  /\ UNCHANGED <<users, projects, tasks, notifications, config_modules, uploads, ops, RESEND_API_KEY, tokens,
                 config_roles, config_user_types>>

\* GET /modules needs no login
get_modules ==
  /\ Arrived
  /\ Begin([op |-> "get_modules", pc |-> "get_modules_from_db.find",
            actor |-> [id |-> NoId], args |-> <<>>])
  /\ UNCHANGED <<users, projects, tasks, notifications, config_modules, uploads,
                 next_id, response, generated, config_roles, config_user_types>>

\* get_notification_subscribers returns supervisors to the handler that
\* called it
subscribers_returned(k, supervisors) ==
  CASE inflight[k].op = "update_task" -> update_task_subscribers(k, supervisors)
    [] inflight[k].op = "update_deliverable" -> update_deliverable_subscribers(k, supervisors)
    [] inflight[k].op = "upload_deliverable_file" ->
         upload_deliverable_file_subscribers(k, supervisors)

\* users.find({"user_type": "direccion"}); the department's project managers
\* are read next if a user_type was passed
get_notification_subscribers_find(k) ==
  /\ inflight[k].pc = "get_notification_subscribers.find"
  /\ LET Direccion(u) == u.user_type = "direccion"
         direccion_users == ToList(Filter(users, Direccion), SubscribersReadLimit)
     IN IF TruthyStr(inflight[k].user_type)
        THEN /\ Suspend(k, [pc |-> "get_notification_subscribers.find_responsables",
                            subscribers |-> direccion_users] @@ inflight[k])
             /\ UNCHANGED <<next_id, response>>
        ELSE subscribers_returned(k, direccion_users)
  /\ UNCHANGED <<users, projects, tasks, notifications, config_modules, uploads, ops, RESEND_API_KEY, tokens,
                 generated, config_roles, config_user_types>>

\* users.find({"role": "project_manager", "user_type": user_type}); those not
\* among the subscribers yet are appended
get_notification_subscribers_find_responsables(k) ==
  /\ inflight[k].pc = "get_notification_subscribers.find_responsables"
  /\ LET r == inflight[k]
         Responsable(u) == u.role = "project_manager" /\ u.user_type = r.user_type
         New(u) == ~HasId(r.subscribers, u.id)
         responsables == ToList(Filter(users, Responsable), SubscribersReadLimit)
     IN subscribers_returned(k, r.subscribers \o Filter(responsables, New))
  /\ UNCHANGED <<users, projects, tasks, notifications, config_modules, uploads, ops, RESEND_API_KEY, tokens,
                 generated, config_roles, config_user_types>>

\* create_notification's insert_one in the loops of create_project and
\* update_task; send_email_notification follows for the same user
create_notification_insert_one(k) ==
  /\ inflight[k].pc = "notifications.insert_one"
  /\ inflight[k].op \in {"create_project", "update_task"}
  /\ notifications' = Append(notifications, inflight[k].notification)
  /\ LET r == [inflight[k] EXCEPT !.notified = Append(@, inflight[k].notification.user_id)]
     IN IF EmailAwaits(r.mail)
        THEN /\ Suspend(k, [r EXCEPT !.pc = "asyncio.to_thread"])
             /\ UNCHANGED <<next_id, response>>
        ELSE NotifyNext(k, r, Tail(r.recipients))
  /\ UNCHANGED <<users, projects, tasks, config_modules, uploads, ops, RESEND_API_KEY, tokens, generated,
                 config_roles, config_user_types>>

\* the delivery handed to a thread is over; the loop it was sent from goes on
send_email_notification_to_thread(k) ==
  /\ inflight[k].pc = "asyncio.to_thread"
  /\ LET r == inflight[k]
     IN IF send_email_notification(r.mail) = "raised"
        THEN /\ response' = Answer(r, 500)
             /\ Return(k)
             /\ UNCHANGED next_id
        ELSE CASE r.op \in {"create_project", "update_task"} ->
                    NotifyNext(k, r, Tail(r.recipients))
               [] r.op = "update_deliverable" ->
                    /\ MailNext(k, [r EXCEPT !.emailed = Append(@, r.emails[1].id)],
                                Tail(r.emails))
                    /\ UNCHANGED next_id
               [] r.op = "upload_deliverable_file" ->
                    UploadMailNext(k, r, Tail(r.emails))
  /\ UNCHANGED <<users, projects, tasks, notifications, config_modules, uploads, ops, RESEND_API_KEY, tokens,
                 generated, config_roles, config_user_types>>

(***************************************************************************)
(* Requests the clients send                                               *)
(***************************************************************************)
\* module selections a client can send: known modules, a module without
\* configuration ("extra"), a repeated id and the empty selection
ModuleLists ==
  { <<>>, <<"design">>, <<"tech">>, <<"design", "tech">>, <<"design", "extra">>,
    <<"design", "design">> }

NoCosts == [m \in {} |-> 0]

SentCosts == [m \in {"design", "legacy"} |-> IF m = "design" THEN 300 ELSE 50]

\* a cost sent for a module the project does not have yet
AddedCosts == [m \in {"extra"} |-> 80]

ProjectUpdateInputs ==
  { [keys |-> {}] }
  \cup { [keys |-> {"modules"}, modules |-> ml] : ml \in ModuleLists }
  \cup { [keys |-> {"end_date"}, end_date |-> "2026-12-31"] }
  \cup { [keys |-> {"status"}, status |-> "completed"] }
  \cup { [keys |-> {"module_costs"}, module_costs |-> SentCosts] }
  \cup { [keys |-> {"billing_mode"}, billing_mode |-> bm] : bm \in {"module", "project"} }
  \cup { [keys |-> {"total_project_cost"}, total_project_cost |-> 700] }
  \cup { [keys |-> {"cost_per_module", "enrollment_payment"}, cost_per_module |-> 5,
          enrollment_payment |-> 7] }
  \cup { [keys |-> {"modules", "module_costs"}, modules |-> <<"tech">>,
          module_costs |-> SentCosts] }
  \cup { [keys |-> {"modules", "module_costs"}, modules |-> <<"design", "extra">>,
          module_costs |-> AddedCosts] }

\* TaskUpdate bodies for the task t as a client has read it
TaskUpdateInputs(t) ==
  { [keys |-> {}] }
  \cup { [keys |-> {"status"}, status |-> st] : st \in {"in_progress", "completed"} }
  \cup { [keys |-> {"assigned_to"}, assigned_to |-> u] : u \in {2, 3} }
  \cup { [keys |-> {"assigned_user_type"}, assigned_user_type |-> ut] :
           ut \in {"creativo", "desarrollo"} }
  \cup { [keys |-> {"checklist"},
          checklist |-> [i \in DOMAIN t.checklist |->
                           [t.checklist[i] EXCEPT !.completed = (i = 1)]]] :
           c \in IF t.checklist = <<>> THEN {} ELSE {1} }
  \cup { [keys |-> {"deliverables"},
          deliverables |-> [i \in DOMAIN t.deliverables |->
                              [t.deliverables[i] EXCEPT !.status = st]]] :
           st \in IF t.deliverables = <<>> THEN {} ELSE {"pending", "approved"} }

UpdatesFor(tid) ==
  IF HasId(tasks, tid) THEN TaskUpdateInputs(FindOne(tasks, tid))
  ELSE {[keys |-> {}], [keys |-> {"status"}, status |-> "completed"]}

\* deliverables a manager can send with a new task ({**item, "id": uuid4()})
SentDeliverable(st) ==
  [name |-> "manual", description |-> "", status |-> st, due_date |-> None,
   file_url |-> NoUrl, uploaded_by |-> NoId, uploaded_at |-> NoId, feedback |-> None,
   reviewed_by |-> NoId, reviewed_at |-> NoId]

TaskCreateInputs ==
  { [title |-> "manual task", description |-> "a mano", module_id |-> "design",
     due_date |-> "2026-06-15", assigned_to |-> NoId,
     checklist |-> <<>>, deliverables |-> <<>>],
    [title |-> "manual task", description |-> "a mano", module_id |-> "legacy",
     due_date |-> "2026-06-15", assigned_to |-> NoId,
     checklist |-> <<[text |-> "step", completed |-> FALSE]>>,
     deliverables |-> <<SentDeliverable("pending")>>] }
  \cup { [title |-> "manual task", description |-> None, module_id |-> "design",
          due_date |-> "2026-06-15", assigned_to |-> NoId,
          checklist |-> <<>>, deliverables |-> <<>>] }

\* query parameters of GET /tasks
TaskQueries ==
  { [status |-> None, assigned_to |-> NoId],
    [status |-> "", assigned_to |-> NoId],
    [status |-> "pending_all", assigned_to |-> NoId],
    [status |-> "completed", assigned_to |-> 3] }

DeliverableCreateInputs ==
  { [name |-> "extra", description |-> None, due_date |-> "2026-12-31"] }

DeliverableUpdateInputs ==
  { [keys |-> {}] }
  \cup { [keys |-> {"status"}, status |-> st] : st \in DeliverableStatuses }
  \cup { [keys |-> {"status", "feedback"}, status |-> "rejected", feedback |-> "redo"] }
  \cup { [keys |-> {"feedback"}, feedback |-> "note"] }

RegisterInputs ==
  { [email |-> e, role |-> r, user_type |-> "creativo"] :
      e \in {"new@x.es", "pm@x.es"}, r \in {"collaborator", "project_manager"} }

UserTypeInputs == { [id |-> "lab", name |-> "Lab"], [id |-> "creativo", name |-> "Arte"] }

UserTypeIds == {"creativo", "lab"}

RoleInputs == { [id |-> "editor", name |-> "Editor"], [id |-> "admin", name |-> "Root"] }

RoleIds == {"admin", "project_manager", "collaborator", "editor"}

ModuleNames == {"Extra", "QA Lab"}

ModuleIds == {"design", "tech", "extra"}

ModuleUpdateInputs == { [keys |-> {}], [keys |-> {"name"}, name |-> "Renamed"] }

\* the {task_id} path segment: a title, an id no template has, or the id of
\* a template of the module
TemplateRefs(module_id) ==
  {"custom", "design#1", "ghost", TemplateId(UnknownId)}
  \cup (IF HasId(config_modules, module_id)
        THEN LET tts == FindOne(config_modules, module_id).tasks
             IN { tts[i].id : i \in {j \in DOMAIN tts : "id" \in DOMAIN tts[j]} }
        ELSE {})

\* identifiers a request can name: the stored ones and one that does not exist
ProjectIds == {projects[i].id : i \in DOMAIN projects} \cup {UnknownId}

TaskIds == {tasks[i].id : i \in DOMAIN tasks} \cup {UnknownId}

DeliverableIds(task_id) ==
  IF HasId(tasks, task_id)
  THEN LET t == FindOne(tasks, task_id)
       IN {t.deliverables[i].id : i \in DOMAIN t.deliverables} \cup {UnknownId}
  ELSE {UnknownId}

NotificationIds == {notifications[i].id : i \in DOMAIN notifications} \cup {UnknownId}

UserIds == {users[i].id : i \in DOMAIN users} \cup {UnknownId}


\* the requests of SpecGuards: for every operation one body that passes its
\* checks and, where the operation refuses one, the body it refuses
GuardProjectCreates ==
  { [name |-> "Campus", modules |-> <<"design">>, end_date |-> "2026-06-15",
     module_costs |-> NoCosts, billing_mode |-> "module", cost_per_module |-> 0,
     total_project_cost |-> 0, enrollment_payment |-> 0] }

GuardProjectUpdates == { [keys |-> {}], [keys |-> {"modules"}, modules |-> <<"tech">>] }

GuardTaskUpdates(tid) ==
  { [keys |-> {}], [keys |-> {"assigned_to"}, assigned_to |-> 2],
    [keys |-> {"assigned_user_type"}, assigned_user_type |-> "creativo"] }

GuardTaskCreates ==
  { [title |-> "manual task", description |-> None, module_id |-> "design",
     due_date |-> "2026-06-15", assigned_to |-> NoId,
     checklist |-> <<>>, deliverables |-> <<>>] }

GuardDeliverableCreates == { [name |-> "extra", description |-> "", due_date |-> "2026-06-15"] }

GuardDeliverableUpdates == { [keys |-> {}], [keys |-> {"status"}, status |-> "approved"] }

GuardUserUpdates == { [keys |-> {}], [keys |-> {"role"}, role |-> "collaborator"] }

GuardTemplates ==
  { [title |-> "custom", description |-> "hecho a mano", assigned_user_type |-> None,
     checklist |-> <<>>, deliverables |-> <<>>] }

GuardTemplateUpdates == { [keys |-> {"title"}, title |-> "renamed"] }

GuardUserTypes == { [id |-> "lab", name |-> "Lab"] }

GuardRoles == { [id |-> "editor", name |-> "Editor"] }

\* the task templates an administrator saves in SpecAdmin: one with a
\* checklist item that is already done, one named like a built-in template
AdminTemplates ==
  { [title |-> "custom", description |-> "hecho a mano", assigned_user_type |-> "creativo",
     checklist |-> <<[text |-> "check", completed |-> FALSE],
                     [text |-> "done", completed |-> TRUE]>>,
     deliverables |-> <<"report">>],
    [title |-> "design#1", description |-> "", assigned_user_type |-> None,
     checklist |-> <<>>, deliverables |-> <<>>] }

\* the requests of SpecMail: the bodies that notify or mail somebody
MailTaskUpdates(tid) ==
  { [keys |-> {"assigned_to"}, assigned_to |-> 2],
    [keys |-> {"assigned_user_type"}, assigned_user_type |-> "desarrollo"] }

MailDeliverableUpdates == { [keys |-> {"status"}, status |-> "approved"] }

\* the deliverables named in SpecMail: those with an uploaded file, and one
\* that does not exist
MailDeliverableIds(task_id) ==
  IF HasId(tasks, task_id)
  THEN LET t == FindOne(tasks, task_id)
       IN {t.deliverables[i].id : i \in {j \in DOMAIN t.deliverables :
                                            t.deliverables[j].file_url # NoUrl}}
            \cup {UnknownId}
  ELSE {UnknownId}

\* the projects created in SpecAdmin: no module, two stored modules, a module
\* without configuration, a module named twice
AdminProjectCreates ==
  { [name |-> "Campus", modules |-> ml, end_date |-> "2026-06-15",
     module_costs |-> NoCosts, billing_mode |-> "module", cost_per_module |-> 0,
     total_project_cost |-> 0, enrollment_payment |-> 0] :
       ml \in { <<>>, <<"design", "tech">>, <<"design", "extra">>, <<"design", "design">> } }

\* the projects created in SpecSeed: two built-in modules, a module without
\* configuration, a module named twice
SeedProjectCreates ==
  { [name |-> "Campus", modules |-> ml, end_date |-> "2026-06-15",
     module_costs |-> NoCosts, billing_mode |-> "module", cost_per_module |-> 0,
     total_project_cost |-> 0, enrollment_payment |-> 0] :
       ml \in { <<"design", "tech">>, <<"design", "extra">>, <<"design", "design">> } }
(***************************************************************************)
(* Initial states: nobody has registered yet; or the database holds only   *)
(* the registered users and no module configuration; or the administrator  *)
(* has trimmed the configuration and created a first project from it (the  *)
(* state create_project leaves behind); or, after that, the collaborator   *)
(* has uploaded a file for a deliverable.  Every stored user holds a token. *)
(***************************************************************************)
FirstProjectInput ==
  [name |-> "Campus", modules |-> <<"design">>, end_date |-> "2026-06-15",
   module_costs |-> NoCosts, billing_mode |-> "module", cost_per_module |-> 0,
   total_project_cost |-> 0, enrollment_payment |-> 0]

FirstProject ==
  LET project == Project(InitUsers[1], FirstProjectInput, 4)
      gen == generate_tasks_for_modules_async(4, FirstProjectInput.modules,
                                              FirstProjectInput.end_date, TrimmedStore, 5)
  IN [project |-> project, tasks |-> gen.tasks,
      notifications |-> [i \in DOMAIN InitUsers |->
                           create_notification(gen.next + i - 1, InitUsers[i].id,
                                               "project_created", 4)],
      next |-> gen.next + Len(InitUsers),
      generated |-> [project_id |-> 4, modules |-> FirstProjectInput.modules,
                     end_date |-> FirstProjectInput.end_date, db_modules |-> TrimmedStore,
                     first_id |-> 5, tasks |-> gen.tasks]]

InitFresh ==
  /\ users = <<>>
  /\ projects = <<>>
  /\ tasks = <<>>
  /\ notifications = <<>>
  /\ config_modules = <<>>
  /\ next_id = 1
  /\ generated = NoGen
  /\ uploads = {}

InitEmpty ==
  /\ users = InitUsers
  /\ projects = <<>>
  /\ tasks = <<>>
  /\ notifications = <<>>
  /\ config_modules = <<>>
  /\ next_id = 4
  /\ generated = NoGen
  /\ uploads = {}

InitWithProject ==
  /\ users = InitUsers
  /\ projects = <<FirstProject.project>>
  /\ tasks = FirstProject.tasks
  /\ notifications = FirstProject.notifications
  /\ config_modules = TrimmedStore
  /\ next_id = FirstProject.next
  /\ generated = FirstProject.generated
  /\ uploads = {}

\* the state upload_deliverable_file leaves behind after the collaborator has
\* uploaded a file for the first deliverable of the first project's task
FirstUpload ==
  LET uploader == InitUsers[3]
      task == FirstProject.tasks[1]
      unique_filename == <<task.deliverables[1].id, FirstProject.next>>
      deliverables == [task.deliverables EXCEPT
                         ![1] = UploadedDeliverable(@, unique_filename, uploader, 0)]
  IN [tasks |-> SetDeliverables(FirstProject.tasks, task.id, deliverables),
      uploads |-> {unique_filename},
      notifications |-> FirstProject.notifications \o
                        [i \in 1..2 |->
                           create_notification(FirstProject.next + i, InitUsers[i].id,
                                               "deliverable_uploaded", 4)],
      next |-> FirstProject.next + 3]

InitUploaded ==
  /\ users = InitUsers
  /\ projects = <<FirstProject.project>>
  /\ tasks = FirstUpload.tasks
  /\ notifications = FirstUpload.notifications
  /\ config_modules = TrimmedStore
  /\ next_id = FirstUpload.next
  /\ generated = FirstProject.generated
  /\ uploads = FirstUpload.uploads

InitRest ==
  /\ ops = 0
  /\ response = NoResponse
  /\ config_roles = <<>>
  /\ config_user_types = <<>>
  /\ inflight = <<>>
  /\ tokens = {users[i].id : i \in DOMAIN users}

\* os.environ.get('RESEND_API_KEY', ''): no key is configured
Init ==
  /\ RESEND_API_KEY = ""
  /\ InitWithProject
  /\ InitRest

(***************************************************************************)
(* Specifications.  Requests arrive while the budget lasts, each from the  *)
(* holder of a token; any suspended request can be the one that goes on.   *)
(***************************************************************************)
\* the holders of a token whose requests arrive while the run's budget lasts
Callers == IF ops < MaxOps THEN tokens ELSE {}

\* requests that need no login
Anonymous == IF ops < MaxOps THEN {NoId} ELSE {}

Resumable == DOMAIN inflight

\* Spec: the task, deliverable and notification endpoints, with the project
\* endpoints that change, delete and read a project
Next ==
  \/ \E caller \in Callers, pid \in ProjectIds, upd \in ProjectUpdateInputs :
       get_current_user(caller, "update_project", <<pid, upd>>)
  \/ \E k \in Resumable : update_project(k)
  \/ \E k \in Resumable : update_project_insert_many(k)
  \/ \E k \in Resumable : update_project_delete_many(k)
  \/ \E k \in Resumable : update_project_update_one(k)
  \/ \E caller \in Callers, pid \in ProjectIds :
       get_current_user(caller, "delete_project", <<pid>>)
  \/ \E k \in Resumable : delete_project(k)
  \/ \E k \in Resumable : delete_project_delete_many(k)
  \/ \E caller \in Callers, tid \in TaskIds : \E upd \in UpdatesFor(tid) :
       get_current_user(caller, "update_task", <<tid, upd>>)
  \/ \E k \in Resumable : update_task(k)
  \/ \E k \in Resumable : update_task_update_one(k)
  \/ \E k \in Resumable : update_task_find_one(k)
  \/ \E k \in Resumable : update_task_projects_find_one(k)
  \/ \E k \in Resumable : update_task_users_find_one(k)
  \/ \E k \in Resumable : update_task_users_find(k)
  \/ \E caller \in Callers, pid \in ProjectIds, data \in TaskCreateInputs :
       get_current_user(caller, "create_task", <<pid, data>>)
  \/ \E k \in Resumable : create_task(k)
  \/ \E k \in Resumable : create_task_insert_one(k)
  \/ \E caller \in Callers, tid \in TaskIds : get_current_user(caller, "delete_task", <<tid>>)
  \/ \E k \in Resumable : delete_task(k)
  \/ \E k \in Resumable : delete_task_delete_one(k)
  \/ \E caller \in Callers, tid \in TaskIds, data \in DeliverableCreateInputs :
       get_current_user(caller, "create_deliverable", <<tid, data>>)
  \/ \E k \in Resumable : create_deliverable(k)
  \/ \E k \in Resumable : create_deliverable_update_one(k)
  \/ \E caller \in Callers, tid \in TaskIds : \E did \in DeliverableIds(tid), upd \in DeliverableUpdateInputs :
       get_current_user(caller, "update_deliverable", <<tid, did, upd>>)
  \/ \E k \in Resumable : update_deliverable(k)
  \/ \E k \in Resumable : update_deliverable_update_one(k)
  \/ \E k \in Resumable : update_deliverable_users_find_one(k)
  \/ \E caller \in Callers, tid \in TaskIds : \E did \in DeliverableIds(tid) :
       get_current_user(caller, "upload_deliverable_file", <<tid, did>>)
  \/ \E k \in Resumable : upload_deliverable_file(k)
  \/ \E k \in Resumable : upload_deliverable_file_update_one(k)
  \/ \E k \in Resumable : upload_deliverable_file_projects_find_one(k)
  \/ \E k \in Resumable : upload_deliverable_file_users_find(k)
  \/ \E k \in Resumable : upload_deliverable_file_insert_one(k)
  \/ \E caller \in Callers, tid \in TaskIds : \E did \in DeliverableIds(tid) :
       get_current_user(caller, "delete_deliverable", <<tid, did>>)
  \/ \E k \in Resumable : delete_deliverable(k)
  \/ \E k \in Resumable : delete_deliverable_update_one(k)
  \/ \E caller \in Callers : get_current_user(caller, "get_projects", <<>>)
  \/ \E k \in Resumable : get_projects(k)
  \/ \E k \in Resumable : get_projects_tasks_find(k)
  \/ \E caller \in Callers, pid \in ProjectIds :
       get_current_user(caller, "get_project", <<pid>>)
  \/ \E k \in Resumable : get_project(k)
  \/ \E k \in Resumable : get_project_tasks_find(k)
  \/ \E k \in Resumable : get_project_config_modules_find(k)
  \/ \E caller \in Callers, pid \in ProjectIds :
       get_current_user(caller, "export_project_pdf", <<pid>>)
  \/ \E k \in Resumable : export_project_pdf(k)
  \/ \E k \in Resumable : export_project_pdf_tasks_find(k)
  \/ \E caller \in Callers, pid \in ProjectIds :
       get_current_user(caller, "get_project_tasks", <<pid>>)
  \/ \E k \in Resumable : get_project_tasks(k)
  \/ \E caller \in Callers : get_current_user(caller, "get_dashboard_stats", <<>>)
  \/ \E k \in Resumable : get_dashboard_stats(k)
  \/ \E k \in Resumable : get_dashboard_stats_count_documents(k)
  \/ \E k \in Resumable : get_dashboard_stats_projects_find(k)
  \/ \E k \in Resumable : get_dashboard_stats_tasks_find(k)
  \/ \E caller \in Callers, nid \in NotificationIds :
       get_current_user(caller, "mark_notification_read", <<nid>>)
  \/ \E k \in Resumable : mark_notification_read(k)
  \/ \E caller \in Callers : get_current_user(caller, "mark_all_notifications_read", <<>>)
  \/ \E k \in Resumable : mark_all_notifications_read(k)
  \/ \E k \in Resumable : get_modules_from_db_find(k)
  \/ \E k \in Resumable : get_notification_subscribers_find(k)
  \/ \E k \in Resumable : get_notification_subscribers_find_responsables(k)
  \/ \E k \in Resumable : create_notification_insert_one(k)

Spec == Init /\ [][Next]_vars

\* SpecAdmin: registration, the module and task template configuration, and
\* the creation of projects from it
InitAdmin ==
  /\ RESEND_API_KEY = ""
  /\ InitFresh \/ InitWithProject
  /\ InitRest

NextAdmin ==
  \/ \E caller \in Anonymous, data \in RegisterInputs : register(data)
  \/ \E k \in Resumable : register_count_documents(k)
  \/ \E k \in Resumable : register_insert_one(k)
  \/ \E caller \in Anonymous : get_modules
  \/ \E caller \in Callers : get_current_user(caller, "admin_get_modules", <<>>)
  \/ \E caller \in Callers, mid \in ModuleIds, data \in AdminTemplates :
       get_current_user(caller, "admin_create_task_template", <<mid, data>>)
  \/ \E k \in Resumable : admin_create_task_template(k)
  \/ \E k \in Resumable : admin_create_task_template_update_one(k)
  \/ \E caller \in Callers, mid \in ModuleIds : \E task_id \in TemplateRefs(mid) :
       get_current_user(caller, "admin_delete_task_template", <<mid, task_id>>)
  \/ \E k \in Resumable : admin_delete_task_template(k)
  \/ \E k \in Resumable : admin_delete_task_template_update_one(k)
  \/ \E caller \in Callers, data \in AdminProjectCreates :
       get_current_user(caller, "create_project", <<data>>)
  \/ \E k \in Resumable : create_project_insert_one(k)
  \/ \E k \in Resumable : create_project_insert_many(k)
  \/ \E k \in Resumable : create_project_users_find(k)
  \/ \E caller \in Callers, pid \in ProjectIds :
       get_current_user(caller, "get_project_tasks", <<pid>>)
  \/ \E k \in Resumable : get_project_tasks(k)
  \/ \E k \in Resumable : get_modules_from_db_find(k)
  \/ \E k \in Resumable : get_modules_from_db_insert_one(k)
  \/ \E k \in Resumable : get_modules_from_db_find_again(k)
  \/ \E k \in Resumable : create_notification_insert_one(k)

SpecAdmin == InitAdmin /\ [][NextAdmin]_vars

\* SpecSeed: the first requests that read the module configuration of a
\* database that holds none, and the project created from what they read
InitSeed ==
  /\ RESEND_API_KEY = ""
  /\ InitEmpty
  /\ InitRest

\* one project is created in a run of SpecSeed
MaxSeedProjects == 1

ProjectsBegun ==
  Len(projects) + Cardinality({k \in DOMAIN inflight :
                                 At(k, "create_project", "projects.insert_one")})

SeedCreators == IF ProjectsBegun < MaxSeedProjects THEN Callers ELSE {}

NextSeed ==
  \/ \E caller \in Anonymous : get_modules
  \/ \E caller \in SeedCreators, data \in SeedProjectCreates :
       get_current_user(caller, "create_project", <<data>>)
  \/ \E k \in Resumable : create_project_insert_one(k)
  \/ \E k \in Resumable : create_project_insert_many(k)
  \/ \E k \in Resumable : create_project_users_find(k)
  \/ \E caller \in Callers, pid \in ProjectIds :
       get_current_user(caller, "get_project_tasks", <<pid>>)
  \/ \E k \in Resumable : get_project_tasks(k)
  \/ \E k \in Resumable : get_modules_from_db_find(k)
  \/ \E k \in Resumable : get_modules_from_db_insert_one(k)
  \/ \E k \in Resumable : get_modules_from_db_find_again(k)
  \/ \E k \in Resumable : create_notification_insert_one(k)

SpecSeed == InitSeed /\ [][NextSeed]_vars

\* SpecGuards: every operation that asks for a role or looks up what the
\* request names, with user administration and the role and user type
\* configuration
InitGuards ==
  /\ RESEND_API_KEY = ""
  /\ InitUploaded
  /\ InitRest

NextGuards ==
  \/ \E caller \in Callers, data \in GuardProjectCreates :
       get_current_user(caller, "create_project", <<data>>)
  \/ \E k \in Resumable : create_project_insert_one(k)
  \/ \E k \in Resumable : create_project_insert_many(k)
  \/ \E k \in Resumable : create_project_users_find(k)
  \/ \E caller \in Callers, pid \in ProjectIds, upd \in GuardProjectUpdates :
       get_current_user(caller, "update_project", <<pid, upd>>)
  \/ \E k \in Resumable : update_project(k)
  \/ \E k \in Resumable : update_project_insert_many(k)
  \/ \E k \in Resumable : update_project_delete_many(k)
  \/ \E k \in Resumable : update_project_update_one(k)
  \/ \E caller \in Callers, pid \in ProjectIds :
       get_current_user(caller, "delete_project", <<pid>>)
  \/ \E k \in Resumable : delete_project(k)
  \/ \E k \in Resumable : delete_project_delete_many(k)
  \/ \E caller \in Callers, pid \in ProjectIds :
       get_current_user(caller, "get_project", <<pid>>)
  \/ \E k \in Resumable : get_project(k)
  \/ \E k \in Resumable : get_project_tasks_find(k)
  \/ \E k \in Resumable : get_project_config_modules_find(k)
  \/ \E caller \in Callers, pid \in ProjectIds :
       get_current_user(caller, "export_project_pdf", <<pid>>)
  \/ \E k \in Resumable : export_project_pdf(k)
  \/ \E k \in Resumable : export_project_pdf_tasks_find(k)
  \/ \E caller \in Callers, pid \in ProjectIds, data \in GuardTaskCreates :
       get_current_user(caller, "create_task", <<pid, data>>)
  \/ \E k \in Resumable : create_task(k)
  \/ \E k \in Resumable : create_task_insert_one(k)
  \/ \E caller \in Callers, tid \in TaskIds : \E upd \in GuardTaskUpdates(tid) :
       get_current_user(caller, "update_task", <<tid, upd>>)
  \/ \E k \in Resumable : update_task(k)
  \/ \E k \in Resumable : update_task_update_one(k)
  \/ \E k \in Resumable : update_task_find_one(k)
  \/ \E k \in Resumable : update_task_projects_find_one(k)
  \/ \E k \in Resumable : update_task_users_find_one(k)
  \/ \E k \in Resumable : update_task_users_find(k)
  \/ \E caller \in Callers, tid \in TaskIds : get_current_user(caller, "delete_task", <<tid>>)
  \/ \E k \in Resumable : delete_task(k)
  \/ \E k \in Resumable : delete_task_delete_one(k)
  \/ \E caller \in Callers, tid \in TaskIds, data \in GuardDeliverableCreates :
       get_current_user(caller, "create_deliverable", <<tid, data>>)
  \/ \E k \in Resumable : create_deliverable(k)
  \/ \E k \in Resumable : create_deliverable_update_one(k)
  \/ \E caller \in Callers, tid \in TaskIds : \E did \in DeliverableIds(tid), upd \in GuardDeliverableUpdates :
       get_current_user(caller, "update_deliverable", <<tid, did, upd>>)
  \/ \E k \in Resumable : update_deliverable(k)
  \/ \E k \in Resumable : update_deliverable_update_one(k)
  \/ \E k \in Resumable : update_deliverable_users_find_one(k)
  \/ \E caller \in Callers, tid \in TaskIds : \E did \in DeliverableIds(tid) :
       get_current_user(caller, "upload_deliverable_file", <<tid, did>>)
  \/ \E k \in Resumable : upload_deliverable_file(k)
  \/ \E k \in Resumable : upload_deliverable_file_update_one(k)
  \/ \E k \in Resumable : upload_deliverable_file_projects_find_one(k)
  \/ \E k \in Resumable : upload_deliverable_file_users_find(k)
  \/ \E k \in Resumable : upload_deliverable_file_insert_one(k)
  \/ \E caller \in Callers, tid \in TaskIds : \E did \in DeliverableIds(tid) :
       get_current_user(caller, "delete_deliverable", <<tid, did>>)
  \/ \E k \in Resumable : delete_deliverable(k)
  \/ \E k \in Resumable : delete_deliverable_update_one(k)
  \/ \E caller \in Callers, query \in TaskQueries :
       get_current_user(caller, "get_tasks", <<query>>)
  \/ \E k \in Resumable : get_tasks(k)
  \/ \E k \in Resumable : get_tasks_tasks_find(k)
  \/ \E k \in Resumable : get_tasks_projects_find(k)
  \/ \E caller \in Callers : get_current_user(caller, "get_users", <<>>)
  \/ \E k \in Resumable : get_users(k)
  \/ \E caller \in Callers, uid \in UserIds, upd \in GuardUserUpdates :
       get_current_user(caller, "update_user", <<uid, upd>>)
  \/ \E k \in Resumable : update_user(k)
  \/ \E caller \in Callers, uid \in UserIds : get_current_user(caller, "delete_user", <<uid>>)
  \/ \E k \in Resumable : delete_user(k)
  \/ \E caller \in Anonymous : get_user_types
  \/ \E caller \in Callers : get_current_user(caller, "admin_get_user_types", <<>>)
  \/ \E caller \in Callers, data \in UserTypeInputs :
       get_current_user(caller, "admin_create_user_type", <<data>>)
  \/ \E k \in Resumable : admin_create_user_type(k)
  \/ \E k \in Resumable : admin_create_user_type_insert_one(k)
  \/ \E caller \in Callers, id \in UserTypeIds, data \in GuardUserTypes :
       get_current_user(caller, "admin_update_user_type", <<id, data>>)
  \/ \E k \in Resumable : admin_update_user_type(k)
  \/ \E caller \in Callers, id \in UserTypeIds :
       get_current_user(caller, "admin_delete_user_type", <<id>>)
  \/ \E k \in Resumable : admin_delete_user_type(k)
  \/ \E caller \in Anonymous : get_roles
  \/ \E caller \in Callers : get_current_user(caller, "admin_get_roles", <<>>)
  \/ \E caller \in Callers, data \in RoleInputs :
       get_current_user(caller, "admin_create_role", <<data>>)
  \/ \E k \in Resumable : admin_create_role(k)
  \/ \E k \in Resumable : admin_create_role_insert_one(k)
  \/ \E caller \in Callers, id \in RoleIds, data \in GuardRoles :
       get_current_user(caller, "admin_update_role", <<id, data>>)
  \/ \E k \in Resumable : admin_update_role(k)
  \/ \E caller \in Callers, id \in RoleIds :
       get_current_user(caller, "admin_delete_role", <<id>>)
  \/ \E k \in Resumable : admin_delete_role(k)
  \/ \E caller \in Callers : get_current_user(caller, "admin_get_modules", <<>>)
  \/ \E caller \in Callers, name \in ModuleNames :
       get_current_user(caller, "admin_create_module", <<name>>)
  \/ \E k \in Resumable : admin_create_module(k)
  \/ \E k \in Resumable : admin_create_module_insert_one(k)
  \/ \E caller \in Callers, mid \in ModuleIds, upd \in ModuleUpdateInputs :
       get_current_user(caller, "admin_update_module", <<mid, upd>>)
  \/ \E k \in Resumable : admin_update_module(k)
  \/ \E caller \in Callers, mid \in ModuleIds :
       get_current_user(caller, "admin_delete_module", <<mid>>)
  \/ \E k \in Resumable : admin_delete_module(k)
  \/ \E caller \in Callers, mid \in ModuleIds, data \in GuardTemplates :
       get_current_user(caller, "admin_create_task_template", <<mid, data>>)
  \/ \E k \in Resumable : admin_create_task_template(k)
  \/ \E k \in Resumable : admin_create_task_template_update_one(k)
  \/ \E caller \in Callers, mid \in ModuleIds : \E task_id \in TemplateRefs(mid), upd \in GuardTemplateUpdates :
       get_current_user(caller, "admin_update_task_template", <<mid, task_id, upd>>)
  \/ \E k \in Resumable : admin_update_task_template(k)
  \/ \E k \in Resumable : admin_update_task_template_update_one(k)
  \/ \E caller \in Callers, mid \in ModuleIds : \E task_id \in TemplateRefs(mid) :
       get_current_user(caller, "admin_delete_task_template", <<mid, task_id>>)
  \/ \E k \in Resumable : admin_delete_task_template(k)
  \/ \E k \in Resumable : admin_delete_task_template_update_one(k)
  \/ \E caller \in Callers, mid \in ModuleIds :
       get_current_user(caller, "admin_get_module_tasks", <<mid>>)
  \/ \E k \in Resumable : admin_get_module_tasks(k)
  \/ \E caller \in Callers : get_current_user(caller, "admin_get_stats", <<>>)
  \/ \E k \in Resumable : admin_get_stats(k)
  \/ \E k \in Resumable : admin_get_stats_count_documents(k)
  \/ \E k \in Resumable : get_user_types_from_db_find(k)
  \/ \E k \in Resumable : get_user_types_from_db_insert_one(k)
  \/ \E k \in Resumable : get_roles_from_db_find(k)
  \/ \E k \in Resumable : get_roles_from_db_insert_one(k)
  \/ \E k \in Resumable : get_modules_from_db_find(k)
  \/ \E k \in Resumable : get_notification_subscribers_find(k)
  \/ \E k \in Resumable : get_notification_subscribers_find_responsables(k)
  \/ \E k \in Resumable : create_notification_insert_one(k)

SpecGuards == InitGuards /\ [][NextGuards]_vars

\* SpecMail: the endpoints that send e-mail, with and without a key configured
InitMail ==
  /\ RESEND_API_KEY \in {"", "re_key"}
  /\ InitUploaded
  /\ InitRest

MailCallers == IF ops < MaxMailOps THEN tokens ELSE {}

NextMail ==
  \/ \E caller \in MailCallers, data \in GuardProjectCreates :
       get_current_user(caller, "create_project", <<data>>)
  \/ \E k \in Resumable : create_project_insert_one(k)
  \/ \E k \in Resumable : create_project_insert_many(k)
  \/ \E k \in Resumable : create_project_users_find(k)
  \/ \E caller \in MailCallers, tid \in TaskIds : \E upd \in MailTaskUpdates(tid) :
       get_current_user(caller, "update_task", <<tid, upd>>)
  \/ \E k \in Resumable : update_task(k)
  \/ \E k \in Resumable : update_task_update_one(k)
  \/ \E k \in Resumable : update_task_find_one(k)
  \/ \E k \in Resumable : update_task_projects_find_one(k)
  \/ \E k \in Resumable : update_task_users_find_one(k)
  \/ \E k \in Resumable : update_task_users_find(k)
  \/ \E caller \in MailCallers, tid \in TaskIds : \E did \in MailDeliverableIds(tid), upd \in MailDeliverableUpdates :
       get_current_user(caller, "update_deliverable", <<tid, did, upd>>)
  \/ \E k \in Resumable : update_deliverable(k)
  \/ \E k \in Resumable : update_deliverable_update_one(k)
  \/ \E k \in Resumable : update_deliverable_users_find_one(k)
  \/ \E caller \in MailCallers, tid \in TaskIds : \E did \in MailDeliverableIds(tid) :
       get_current_user(caller, "upload_deliverable_file", <<tid, did>>)
  \/ \E k \in Resumable : upload_deliverable_file(k)
  \/ \E k \in Resumable : upload_deliverable_file_update_one(k)
  \/ \E k \in Resumable : upload_deliverable_file_projects_find_one(k)
  \/ \E k \in Resumable : upload_deliverable_file_users_find(k)
  \/ \E k \in Resumable : upload_deliverable_file_insert_one(k)
  \/ \E k \in Resumable : get_modules_from_db_find(k)
  \/ \E k \in Resumable : get_notification_subscribers_find(k)
  \/ \E k \in Resumable : get_notification_subscribers_find_responsables(k)
  \/ \E k \in Resumable : create_notification_insert_one(k)
  \/ \E k \in Resumable : send_email_notification_to_thread(k)

SpecMail == InitMail /\ [][NextMail]_vars
(***************************************************************************)
(* Properties.  A handler runs in several steps, so what a request does is *)
(* stated step by step, against the documents the request has read; what   *)
(* it has answered is read from response.                                  *)
(***************************************************************************)
\* no element occurs twice in s
IsDistinct(s) == \A i, j \in DOMAIN s : i # j => s[i] # s[j]

\* no id is carried by two of the documents
DistinctIds(docs) == \A i, j \in DOMAIN docs : docs[i].id = docs[j].id => i = j

\* sum(len(template.tasks) for template in store if template.id in M)
ExpectedTaskCount(db_modules, M) ==
  SeqSum([i \in DOMAIN db_modules |->
            IF db_modules[i].id \in Range(M) THEN Len(db_modules[i].tasks) ELSE 0])

\* number of task templates of module mid among the documents read: those
\* of the last document that carries the id, 0 when none does
TemplateCount(store, mid) ==
  LET at == {i \in DOMAIN store : store[i].id = mid}
  IN IF at = {} THEN 0
     ELSE Len(store[CHOOSE i \in at : \A j \in at : j <= i].tasks)

\* how often x occurs in s
Occurrences(s, x) == Cardinality({i \in DOMAIN s : s[i] = x})

\* the tasks of project pid that carry module id m, in stored order
ModuleTasks(ts, pid, m) ==
  LET Of(t) == t.project_id = pid /\ t.module_id = m IN Filter(ts, Of)

\* the module ids found among the tasks of project pid
ModulesAmongTasks(ts, pid) ==
  { ts[i].module_id : i \in { j \in DOMAIN ts : ts[j].project_id = pid } }

\* the deliverable did of task tid as stored in ts
DeliverableOf(ts, tid, did) == FindOne(FindOne(ts, tid).deliverables, did)

\* this step is taken by the suspended request inflight[k]
Resumed(k) ==
  /\ k \in DOMAIN inflight
  /\ ops' = ops
  /\ inflight' # inflight
  /\ \/ inflight' = RemoveAt(inflight, k)
     \/ /\ Len(inflight') = Len(inflight)
        /\ \A j \in DOMAIN inflight : j # k => inflight'[j] = inflight[j]

\* the request taking this step returns or raises in it
Answers == Len(inflight') < Len(inflight)

\* this step is the arrival of a request
Arrives == ops' = ops + 1

\* the request that arrives in this step: the one that joined the suspended
\* requests, or else the one answered at once
Arriving ==
  IF Len(inflight') > Len(inflight)
  THEN LET r == inflight'[Len(inflight')]
       IN [op |-> r.op, status |-> 0, actor |-> r.actor.id, args |-> r.args]
  ELSE response'

C2_GeneratedUnchecked ==
  \A i \in DOMAIN generated.tasks :
    \A k \in DOMAIN generated.tasks[i].checklist :
      generated.tasks[i].checklist[k].completed = FALSE

\* C10: create_project stores exactly the generated batch for its project:
\* no task carries the new project's id before the batch is inserted, the
\* insertion appends the batch, no other step of the request touches a task,
\* tasks_created is the size of the batch and the sum, over the selected
\* modules, of the task template counts read for them, and every task of the
\* batch carries the id of a selected module; a get_project_tasks for the new
\* project answered next returns tasks_created tasks, each of a selected
\* module.
C10_TasksCreated ==
  [][/\ \A k \in DOMAIN inflight :
          (Resumed(k) /\ inflight[k].op = "create_project") =>
            LET r == inflight[k]
                pid == r.project.id
                selected == r.args[1].modules
            IN /\ r.pc = "projects.insert_one" => TasksOfProject(tasks, pid) = <<>>
               /\ r.pc = "tasks.insert_many" =>
                    TasksOfProject(tasks', pid) = TasksOfProject(tasks, pid) \o r.tasks
               /\ r.pc # "tasks.insert_many" => tasks' = tasks
               /\ (Answers /\ response'.status = 200) =>
                    /\ response'.project_id = pid
                    /\ response'.tasks_created = Len(response'.tasks)
                    /\ response'.tasks_created =
                         SeqSum([i \in DOMAIN selected |->
                                   TemplateCount(response'.db_modules, selected[i])])
                    /\ \A i \in DOMAIN response'.tasks :
                         /\ response'.tasks[i].module_id \in Range(selected)
                         /\ response'.tasks[i].project_id = pid
     /\ \A k \in DOMAIN inflight :
          (/\ Resumed(k)
           /\ At(k, "get_project_tasks", "first await")
           /\ response.op = "create_project"
           /\ response.status = 200
           /\ response.project_id = inflight[k].args[1]) =>
            /\ response'.status = 200
            /\ Len(response'.tasks) = response.tasks_created
            /\ \A i \in DOMAIN response'.tasks :
                 response'.tasks[i].module_id \in Range(response.args[1].modules)]_vars

\* design and tech were selected on the built-in templates, 3 + 5 tasks, and
\* get_project_tasks has returned the eight
C10_Witness ==
  /\ response.op = "get_project_tasks"
  /\ response.status = 200
  /\ Len(response.tasks) = 8
  /\ generated.project_id = response.project_id
  /\ generated.modules = <<"design", "tech">>
  /\ Len(generated.tasks) = 8
  /\ HasId(projects, response.project_id)
  /\ FindOne(projects, response.project_id).modules = <<"design", "tech">>

\* C3 as stated: after an update_project that sends the module list, the
\* module ids among the project's tasks are exactly the project's module
\* list; read on the first request served, which no other request can disturb.
C3_ModuleSetEqualsList ==
  (/\ response.op = "update_project"
   /\ response.status = 200
   /\ "modules" \in response.sent.keys
   /\ ops = 1) =>
    ModulesAmongTasks(tasks, response.project_id)
      = Range(FindOne(projects, response.project_id).modules)

\* C3 amended: an update_project that read the module list S1 and is sent S2
\* deletes, in one step, every task of the project whose module is in S1 \ S2
\* and no other task, and inserts, in one step, for every module of S2 \ S1
\* one task per task template read for it, as often as S2 names it (none when
\* no template is stored), and no other task; no other step of it changes a
\* task. When no other request was in flight with it, no task of S1 \ S2 is
\* left and every inserted task is stored when it answers.
C3_ModulesAfterUpdate ==
  [][\A k \in DOMAIN inflight :
       (/\ Resumed(k)
        /\ inflight[k].op = "update_project"
        /\ "modules" \in inflight[k].args[2].keys) =>
         LET r == inflight[k]
             pid == r.args[1]
             S1 == r.current_project.modules
             S2 == r.args[2].modules
             removed == Range(S1) \ Range(S2)
             added == Range(S2) \ Range(S1)
         IN /\ r.pc = "tasks.delete_many" =>
                 /\ \A m \in removed : ModuleTasks(tasks', pid, m) = <<>>
                 /\ ModulesAmongTasks(tasks', pid) = ModulesAmongTasks(tasks, pid) \ removed
                 /\ \A i \in DOMAIN tasks :
                      (tasks[i].project_id # pid \/ tasks[i].module_id \notin removed) =>
                        Contains(tasks', tasks[i])
            /\ r.pc = "tasks.insert_many" =>
                 /\ \A m \in added :
                      Len(ModuleTasks(tasks', pid, m))
                        = Len(ModuleTasks(tasks, pid, m))
                            + Occurrences(S2, m) * TemplateCount(r.db_modules, m)
                 /\ ModulesAmongTasks(tasks', pid)
                      = ModulesAmongTasks(tasks, pid)
                          \cup { m \in added : TemplateCount(r.db_modules, m) > 0 }
                 /\ Len(tasks') = Len(tasks) + Len(r.new_tasks)
            /\ r.pc \notin {"tasks.delete_many", "tasks.insert_many"} => tasks' = tasks
            /\ (Answers /\ response'.status = 200 /\ r.alone) =>
                 /\ \A m \in removed : ModuleTasks(tasks', pid, m) = <<>>
                 /\ \A i \in DOMAIN response'.new_tasks :
                      Contains(tasks', response'.new_tasks[i])]_vars

\* a project moved from design to tech: the design task is gone and the two
\* tech templates were generated
C3_Witness ==
  /\ response.op = "update_project"
  /\ response.status = 200
  /\ response.old_modules = <<"design">>
  /\ HasId(projects, response.project_id)
  /\ FindOne(projects, response.project_id).modules = <<"tech">>
  /\ ModuleTasks(tasks, response.project_id, "design") = <<>>
  /\ ModuleTasks(tasks, response.project_id, "tech") = generated.tasks
  /\ Len(generated.tasks) = 2

\* C4: no step of update_project changes the tasks of a module that is in
\* both the list it reads and the list it stores, and when both lists hold the
\* same modules (or no list is sent) no step inserts, deletes or alters a task.
C4_KeptModulesUntouched ==
  [][\A k \in DOMAIN inflight :
       (Resumed(k) /\ inflight[k].op = "update_project") =>
         LET r == inflight[k]
             pid == r.args[1]
             S1 == IF r.pc # "first await" THEN r.current_project.modules
                   ELSE IF HasId(projects, pid) THEN FindOne(projects, pid).modules
                   ELSE <<>>
             S2 == IF "modules" \in r.args[2].keys THEN r.args[2].modules ELSE S1
         IN /\ \A m \in Range(S1) \cap Range(S2) :
                 ModuleTasks(tasks', pid, m) = ModuleTasks(tasks, pid, m)
            /\ Range(S1) = Range(S2) => tasks' = tasks]_vars

\* tech was added to a design project whose design task was already
\* completed: that task is still there, still completed
C4_Witness ==
  /\ response.op = "update_project"
  /\ response.status = 200
  /\ response.old_modules = <<"design">>
  /\ HasId(projects, response.project_id)
  /\ FindOne(projects, response.project_id).modules = <<"design", "tech">>
  /\ response.new_tasks # <<>>
  /\ \E i \in DOMAIN tasks :
       /\ tasks[i].project_id = response.project_id
       /\ tasks[i].module_id = "design"
       /\ tasks[i].status = "completed"

\* C5: when update_project removes a module, every uploaded file referenced
\* by a deliverable of the tasks it deleted is gone from the upload directory.
C5_RemovedModuleFilesDeleted ==
  (response.op = "update_project" /\ response.status = 200) =>
    \A i \in DOMAIN response.deleted : FilesOfTask(response.deleted[i]) \cap uploads = {}

\* C6: the progress get_projects, get_project and export_project_pdf report
\* for a project is recomputed from the tasks read for it: 0 without tasks,
\* otherwise the tenth of a percent nearest to 100 * completed / total.
C6_ProgressRecomputed ==
  LET Recomputed(N, K, p) ==
        IF N = 0 THEN p = 0
        ELSE 2 * (p * N - 1000 * K) <= N /\ 2 * (1000 * K - p * N) <= N
  IN /\ (response.op = "get_projects" /\ response.status = 200) =>
          \A i \in DOMAIN response.projects :
            Recomputed(response.projects[i].total_tasks,
                       response.projects[i].completed_tasks,
                       response.projects[i].progress)
     /\ (response.op = "get_project" /\ response.status = 200) =>
          Recomputed(response.project.total_tasks, response.project.completed_tasks,
                     response.project.progress)
     /\ (response.op = "export_project_pdf" /\ response.status = 200) =>
          Recomputed(response.total_tasks, response.completed_tasks, response.progress)

\* C7: the write of update_deliverable leaves the stored deliverable, for
\* status approved or rejected, with the acting user as reviewed_by and a
\* time as reviewed_at; with any other status, or none, it leaves both fields
\* as they were stored.
C7_ReviewerRecorded ==
  [][\A k \in DOMAIN inflight :
       (/\ Resumed(k)
        /\ At(k, "update_deliverable", "tasks.update_one")
        /\ HasId(tasks, inflight[k].args[1])
        /\ HasId(FindOne(tasks, inflight[k].args[1]).deliverables, inflight[k].args[2])) =>
         LET r == inflight[k]
             before == DeliverableOf(tasks, r.args[1], r.args[2])
             after == DeliverableOf(tasks', r.args[1], r.args[2])
             upd == r.args[3]
         IN IF "status" \in upd.keys /\ upd.status \in {"approved", "rejected"}
            THEN after.reviewed_by = r.actor.id /\ after.reviewed_at # NoId
            ELSE /\ after.reviewed_by = before.reviewed_by
                 /\ after.reviewed_at = before.reviewed_at]_vars

\* C8: the write of upload_deliverable_file leaves a deliverable stored as
\* pending in_review and a deliverable stored as in_review, approved or
\* rejected with the status it had, and replaces file_url and uploaded_by.
C8_UploadStatus ==
  [][\A k \in DOMAIN inflight :
       (/\ Resumed(k)
        /\ At(k, "upload_deliverable_file", "tasks.update_one")
        /\ HasId(tasks, inflight[k].args[1])
        /\ HasId(FindOne(tasks, inflight[k].args[1]).deliverables, inflight[k].args[2])) =>
         LET r == inflight[k]
             before == DeliverableOf(tasks, r.args[1], r.args[2])
             after == DeliverableOf(tasks', r.args[1], r.args[2])
         IN /\ before.status = "pending" => after.status = "in_review"
            /\ before.status \in {"in_review", "approved", "rejected"} =>
                 after.status = before.status
            /\ after.file_url = UrlOfFile(r.unique_filename)
            /\ after.uploaded_by = r.actor.id]_vars

\* C9: a deliverable that is approved or rejected is not pending after any
\* step of any endpoint.
C9_NoReturnToPending ==
  [][\A i \in DOMAIN tasks : \A k \in DOMAIN tasks[i].deliverables :
       tasks[i].deliverables[k].status \in {"approved", "rejected"} =>
         \A j \in DOMAIN tasks' : \A l \in DOMAIN tasks'[j].deliverables :
           (tasks'[j].id = tasks[i].id
              /\ tasks'[j].deliverables[l].id = tasks[i].deliverables[k].id)
             => tasks'[j].deliverables[l].status # "pending"]_vars

\* C11: whenever no request is in flight every task's project_id is the id
\* of a stored project, under every interleaving of delete_project with
\* create_task and update_project.
C11_NoOrphanTasks ==
  inflight = <<>> => \A i \in DOMAIN tasks : HasId(projects, tasks[i].project_id)

\* the billing mode in force for an update: the one sent, else the one read
EffectiveMode(cur, sent) ==
  IF "billing_mode" \in sent.keys THEN sent.billing_mode ELSE cur.billing_mode

\* C12 as stated: the project update_project writes for a sent module list
\* has exactly the new modules as keys of module_costs, a module already in
\* the list read keeps its cost or takes the one sent, a module not in the
\* list read gets its default cost, and under module billing the total is the
\* sum of the map.
C12_CostsAsStated ==
  [][\A k \in DOMAIN inflight :
       (/\ Resumed(k)
        /\ At(k, "update_project", "projects.update_one")
        /\ "modules" \in inflight[k].args[2].keys
        /\ HasId(projects, inflight[k].args[1])) =>
         LET sent == inflight[k].args[2]
             cur == inflight[k].current_project
             new == FindOne(projects', inflight[k].args[1])
             SentFor(m) == "module_costs" \in sent.keys /\ m \in DOMAIN sent.module_costs
         IN /\ DOMAIN new.module_costs = Range(sent.modules)
            /\ \A m \in Range(sent.modules) :
                 new.module_costs[m] =
                   IF Contains(cur.modules, m) /\ SentFor(m) THEN sent.module_costs[m]
                   ELSE IF Contains(cur.modules, m) /\ m \in DOMAIN cur.module_costs
                   THEN cur.module_costs[m]
                   ELSE DefaultCost(m)
            /\ EffectiveMode(cur, sent) = "module" =>
                 new.total_project_cost = DictSum(new.module_costs)]_vars

\* C12 amended: the cost map update_project writes for a sent module list
\* has exactly the new modules as keys; each takes the cost sent for it in the
\* request, else the cost held for it by the map of the project document the
\* request read, else its default cost (0 without one); under module billing
\* the total written is the sum of the map written. The map replaces the
\* stored one, whatever was stored since the read.
C12_CostsAfterUpdate ==
  [][\A k \in DOMAIN inflight :
       (/\ Resumed(k)
        /\ At(k, "update_project", "projects.update_one")
        /\ "modules" \in inflight[k].args[2].keys
        /\ HasId(projects, inflight[k].args[1])) =>
         LET sent == inflight[k].args[2]
             cur == inflight[k].current_project
             new == FindOne(projects', inflight[k].args[1])
             SentFor(m) == "module_costs" \in sent.keys /\ m \in DOMAIN sent.module_costs
         IN /\ DOMAIN new.module_costs = Range(sent.modules)
            /\ \A m \in Range(sent.modules) :
                 new.module_costs[m] =
                   IF SentFor(m) THEN sent.module_costs[m]
                   ELSE IF m \in DOMAIN cur.module_costs THEN cur.module_costs[m]
                   ELSE DefaultCost(m)
            /\ EffectiveMode(cur, sent) = "module" =>
                 new.total_project_cost = DictSum(new.module_costs)]_vars

\* a project moved from design alone to design and extra with a cost sent for
\* extra: design keeps its cost, extra takes the sent one, the total is their sum
C12_Witness ==
  /\ response.op = "update_project"
  /\ response.status = 200
  /\ response.old_modules = <<"design">>
  /\ response.sent.keys = {"modules", "module_costs"}
  /\ HasId(projects, response.project_id)
  /\ LET p == FindOne(projects, response.project_id)
     IN /\ p.modules = <<"design", "extra">>
        /\ DOMAIN p.module_costs = {"design", "extra"}
        /\ p.module_costs["extra"] = 80
        /\ p.billing_mode = "module"
        /\ p.total_project_cost = p.module_costs["design"] + 80

\* C13: no project record returned to a user who is neither admin nor
\* project manager carries a billing field, in get_projects, get_project and
\* the recent_projects of get_dashboard_stats.
C13_NoBillingForOthers ==
  (/\ response.op \in {"get_projects", "get_project", "get_dashboard_stats"}
   /\ response.status = 200
   /\ FindOne(users, response.actor).role \notin {"admin", "project_manager"}) =>
    LET returned == IF response.op = "get_projects" THEN response.projects
                    ELSE IF response.op = "get_project" THEN <<response.project>>
                    ELSE response.recent_projects
    IN \A i \in DOMAIN returned : returned[i].billing \cap BillingKeys = {}

\* C14: a request whose user, as get_current_user reads it, has a role below
\* the operation's minimum (not admin on get_users, update_user, delete_user,
\* delete_project or an /admin/ operation; neither admin nor project manager
\* on create_project, update_project, create_task, delete_task,
\* delete_deliverable) is answered 403 in that step, never runs a step of the
\* handler, and leaves projects, tasks, users, notifications, configuration
\* and stored files as they were.
C14_ForbiddenChangesNothing ==
  [][LET admin_only ==
           {"get_users", "update_user", "delete_user", "delete_project",
            "admin_get_modules",
            "admin_get_user_types", "admin_create_user_type", "admin_update_user_type",
            "admin_delete_user_type", "admin_get_roles", "admin_create_role",
            "admin_update_role", "admin_delete_role", "admin_create_module",
            "admin_update_module", "admin_delete_module", "admin_create_task_template",
            "admin_update_task_template", "admin_delete_task_template",
            "admin_get_module_tasks", "admin_get_stats"}
         manager_or_admin ==
           {"create_project", "update_project", "create_task", "delete_task",
            "delete_deliverable"}
     IN /\ Arrives =>
             LET a == Arriving
             IN (/\ HasId(users, a.actor)
                 /\ \/ a.op \in admin_only /\ FindOne(users, a.actor).role # "admin"
                    \/ /\ a.op \in manager_or_admin
                       /\ FindOne(users, a.actor).role \notin {"admin", "project_manager"}) =>
                  /\ a.status = 403
                  /\ UNCHANGED <<projects, tasks, users, notifications, config_modules,
                                 config_roles, config_user_types, uploads, inflight>>
        /\ \A k \in DOMAIN inflight' :
             /\ inflight'[k].op \in admin_only => inflight'[k].actor.role = "admin"
             /\ inflight'[k].op \in manager_or_admin =>
                  inflight'[k].actor.role \in {"admin", "project_manager"}]_vars

\* the collaborator asked to delete an existing project and was refused
C14_Witness ==
  /\ response.op = "delete_project"
  /\ response.status = 403
  /\ response.actor = 3
  /\ HasId(users, 3)
  /\ FindOne(users, 3).role = "collaborator"
  /\ projects # <<>>
  /\ tasks # <<>>
  /\ uploads # {}

\* the documents and files a request can change
Stored ==
  <<users, projects, tasks, notifications, config_modules, config_roles,
    config_user_types, uploads>>

\* the operation op, called with args, names a project, task, deliverable,
\* user, module, role, user type or task template that is not stored
NamedMissing(op, args) ==
  LET NoTemplate(mid, ref) ==
        \/ ~HasId(config_modules, mid)
        \/ LET tts == FindOne(config_modules, mid).tasks
           IN ~\E i \in DOMAIN tts :
                 \/ "id" \in DOMAIN tts[i] /\ tts[i].id = ref
                 \/ "title" \in DOMAIN tts[i] /\ tts[i].title = ref
  IN CASE op \in {"update_project", "delete_project", "create_task", "get_project",
                  "export_project_pdf"} -> ~HasId(projects, args[1])
       [] op \in {"update_task", "delete_task", "create_deliverable"} ->
            ~HasId(tasks, args[1])
       [] op \in {"update_deliverable", "upload_deliverable_file", "delete_deliverable"} ->
            \/ ~HasId(tasks, args[1])
            \/ ~HasId(FindOne(tasks, args[1]).deliverables, args[2])
       [] op \in {"update_user", "delete_user"} -> ~HasId(users, args[1])
       [] op \in {"admin_update_module", "admin_delete_module", "admin_get_module_tasks",
                  "admin_create_task_template"} -> ~HasId(config_modules, args[1])
       [] op \in {"admin_update_task_template", "admin_delete_task_template"} ->
            NoTemplate(args[1], args[2])
       [] op \in {"admin_update_role", "admin_delete_role"} ->
            ~HasId(config_roles, args[1])
       [] op \in {"admin_update_user_type", "admin_delete_user_type"} ->
            ~HasId(config_user_types, args[1])
       [] OTHER -> FALSE

\* the operation refuses the call before it looks anything up: an empty
\* update body, or a built-in role id in admin_delete_role
RefusedFirst(op, args) ==
  \/ op \in {"update_task", "update_user", "admin_update_module"} /\ args[2].keys = {}
  \/ op = "admin_delete_role" /\ args[1] \in {"admin", "project_manager", "collaborator"}

\* the request arriving in this step has passed get_current_user and the
\* role check
Admitted == Arrives /\ Arriving.status \notin {401, 403}

\* the request inflight[k] makes its first database call in this step
LooksUp(k) == Resumed(k) /\ inflight[k].pc = "first await"

\* C15 as stated: a request (of a user the role check lets through) that
\* names something that does not exist is answered 404, be it when it
\* arrives or when it looks the thing up, and leaves every collection and the
\* file store unchanged.
C15_MissingGives404 ==
  [][/\ (Admitted /\ NamedMissing(Arriving.op, Arriving.args)) =>
          /\ Arriving.status \in {0, 404}
          /\ UNCHANGED Stored
     /\ \A k \in DOMAIN inflight :
          (LooksUp(k) /\ NamedMissing(inflight[k].op, inflight[k].args)) =>
            /\ Answers
            /\ response'.status = 404
            /\ UNCHANGED Stored]_vars

\* C15 amended: a call with an empty update body (update_task, update_user,
\* admin_update_module) or with a built-in role id (admin_delete_role) is
\* answered 400 when it arrives, whether or not what it names exists; any
\* other request that names something that is not stored when the operation
\* looks it up is answered 404 in that step; in both cases no collection and
\* no stored file changes.
C15_MissingChangesNothing ==
  [][/\ Admitted =>
          IF RefusedFirst(Arriving.op, Arriving.args)
          THEN Arriving.status = 400 /\ UNCHANGED Stored
          ELSE NamedMissing(Arriving.op, Arriving.args) =>
                 Arriving.status = 0 /\ UNCHANGED Stored
     /\ \A k \in DOMAIN inflight :
          (LooksUp(k) /\ NamedMissing(inflight[k].op, inflight[k].args)) =>
            /\ Answers
            /\ response'.status = 404
            /\ response'.op = inflight[k].op
            /\ UNCHANGED Stored]_vars

\* a manager asked to delete a deliverable the task does not have while an
\* uploaded file of that task is on disk: 404, and the file is still there
C15_Witness ==
  /\ response.op = "delete_deliverable"
  /\ response.status = 404
  /\ HasId(tasks, response.args[1])
  /\ response.args[2] = UnknownId
  /\ FilesOfTask(FindOne(tasks, response.args[1])) # {}
  /\ FilesOfTask(FindOne(tasks, response.args[1])) \subseteq uploads

\* C16: admin_delete_role called by an administrator with one of the
\* built-in role ids admin, project_manager, collaborator is answered 400
\* when it arrives, never reaches the role store, and leaves the role
\* configuration unchanged; no step of an admin_delete_role request removes a
\* built-in role.
C16_BuiltInRolesKept ==
  [][LET built_in == {"admin", "project_manager", "collaborator"}
     IN /\ (/\ Admitted
            /\ Arriving.op = "admin_delete_role"
            /\ Arriving.args[1] \in built_in) =>
             /\ Arriving.status = 400
             /\ config_roles' = config_roles
        /\ \A k \in DOMAIN inflight :
             (Resumed(k) /\ inflight[k].op = "admin_delete_role") =>
               /\ inflight[k].args[1] \notin built_in
               /\ \A id \in built_in : HasId(config_roles, id) => HasId(config_roles', id)]_vars

\* the administrator tried to delete the stored project_manager role
C16_Witness ==
  /\ response.op = "admin_delete_role"
  /\ response.status = 400
  /\ response.args[1] = "project_manager"
  /\ HasId(config_roles, "project_manager")
  /\ Len(config_roles) = 3

\* C17: no two stored users have the same email, under every sequence and
\* interleaving of register requests.
C17_EmailsUnique ==
  \A i, j \in DOMAIN users : users[i].email = users[j].email => i = j

\* C18: from an empty user store, once every register request is answered
\* (every request so far was a register that stored a user), exactly one user
\* is administrator and the user just registered has the role admin or the
\* role it asked for.
C18_OneAdmin ==
  (/\ inflight = <<>>
   /\ users # <<>>
   /\ Len(users) = ops
   /\ response.op = "register"
   /\ response.status = 200) =>
    /\ Cardinality({i \in DOMAIN users : users[i].role = "admin"}) = 1
    /\ response.user.role \in {"admin", response.args[1].role}

\* C19: an update_task request never notifies its actor and never notifies a
\* user twice; the new assignee, the members of a newly set department, the
\* direccion users and the project managers of the task's department each get
\* exactly one notification when their rule applies, also when several do;
\* each notification is one record appended for that user.
C19_OneNotificationEach ==
  [][/\ (response'.op = "update_task" /\ response'.status = 200) =>
          LET actor == response'.actor
              sent == response'.sent
              t0 == response'.original_task
              t1 == response'.task
              reassigned == t1.assigned_to # t0.assigned_to
              retyped == t1.assigned_user_type # t0.assigned_user_type
              to_user == reassigned /\ t1.assigned_to # NoId
              to_department ==
                /\ t1.assigned_to = NoId
                /\ t1.assigned_user_type # None
                /\ retyped \/ reassigned
              supervised ==
                \/ reassigned
                \/ retyped
                \/ ("status" \in sent.keys /\ sent.status = "completed")
                \/ /\ "checklist" \in sent.keys
                   /\ \E i \in DOMAIN sent.checklist :
                        /\ sent.checklist[i].completed
                        /\ ~\E k \in DOMAIN t0.checklist :
                              /\ t0.checklist[k].id = sent.checklist[i].id
                              /\ t0.checklist[k].completed
              Qualifies(u) ==
                \/ to_user /\ u.id = t1.assigned_to
                \/ to_department /\ u.user_type = t1.assigned_user_type
                \/ supervised /\ u.user_type = "direccion"
                \/ /\ supervised
                   /\ u.role = "project_manager"
                   /\ t1.assigned_user_type # None
                   /\ u.user_type = t1.assigned_user_type
          IN /\ IsDistinct(response'.notified)
             /\ Range(response'.notified) =
                  { users[i].id : i \in { j \in DOMAIN users :
                       users[j].id # actor /\ Qualifies(users[j]) } }
     /\ \A k \in DOMAIN inflight :
          (Resumed(k) /\ inflight[k].op = "update_task") =>
            IF inflight[k].pc = "notifications.insert_one"
            THEN LET n == notifications'[Len(notifications')]
                 IN /\ notifications' = Append(notifications, n)
                    /\ n.user_id = inflight[k].recipients[1].id
                    /\ n.user_id \notin Range(inflight[k].notified)
                    /\ n.type = "task_assignment_update"
                    /\ (IF Answers THEN response'.notified ELSE inflight'[k].notified)
                         = Append(inflight[k].notified, n.user_id)
            ELSE notifications' = notifications]_vars

\* the collaborator gave a task of the creativo department to its project
\* manager: the project manager qualifies as assignee and as supervisor and
\* holds one notification of the request, the collaborator none
C19_Witness ==
  /\ response.op = "update_task"
  /\ response.status = 200
  /\ response.actor = 3
  /\ response.sent.keys = {"assigned_to"}
  /\ response.sent.assigned_to = 2
  /\ response.task.assigned_user_type = "creativo"
  /\ LET about == {i \in DOMAIN notifications :
                     notifications[i].type = "task_assignment_update"}
     IN /\ Cardinality(about) = 2
        /\ {notifications[i].user_id : i \in about} = {1, 2}

\* C20: a review that sets a deliverable to approved or rejected is mailed to
\* the uploader (if any), to the direccion users and to the project managers
\* of the task's assigned department, each once, the reviewer not being among
\* the supervisors.
C20_ReviewRecipients ==
  (/\ response.op = "update_deliverable"
   /\ response.status = 200
   /\ "status" \in response.sent.keys
   /\ response.sent.status \in {"approved", "rejected"}) =>
    LET task == response.task
        d == FindOne(response.deliverables, response.deliverable_id)
        uploader == IF d.uploaded_by # NoId /\ HasId(users, d.uploaded_by)
                    THEN {d.uploaded_by} ELSE {}
        supervisors ==
          {users[i].id : i \in
             {j \in DOMAIN users :
                /\ users[j].id # response.actor
                /\ \/ users[j].user_type = "direccion"
                   \/ /\ users[j].role = "project_manager"
                      /\ task.assigned_user_type # None
                      /\ users[j].user_type = task.assigned_user_type}}
    IN /\ IsDistinct(response.emailed)
       /\ Range(response.emailed) = uploader \cup supervisors

\* the types of the notifications create_project, update_task and
\* upload_deliverable_file store
OtherNotificationTypes ==
  {"project_created", "task_assignment_update", "deliverable_uploaded"}

\* C21: every recipient computed after a task update holds an in-app
\* notification record of the update, and every recipient computed after a
\* deliverable review (approved or rejected) holds one of the review,
\* whatever happens to the e-mail.
C21_RecordForEveryRecipient ==
  /\ (response.op = "update_task" /\ response.status = 200) =>
       \A k \in DOMAIN response.recipients :
         \E i \in DOMAIN notifications :
           /\ notifications[i].user_id = response.recipients[k]
           /\ notifications[i].type = "task_assignment_update"
  /\ (/\ response.op = "update_deliverable"
      /\ response.status = 200
      /\ IsReview(response.sent)) =>
       \A k \in DOMAIN response.emailed :
         \E i \in DOMAIN notifications :
           /\ notifications[i].user_id = response.emailed[k]
           /\ notifications[i].type \notin OtherNotificationTypes

\* the four requests that notify after their write
FanOutOps ==
  {"update_task", "update_deliverable", "upload_deliverable_file", "create_project"}

\* the request r has begun to notify: it has chosen what its e-mails meet
FanOutBegun(r) == "mail" \in DOMAIN r /\ r.mail # "none"

\* the write the request inflight[k] makes in this step is in the stored state
MutationStored(k) ==
  LET r == inflight[k]
  IN CASE r.op = "create_project" /\ r.pc = "projects.insert_one" ->
            HasId(projects', r.project.id)
       [] r.op = "create_project" /\ r.pc = "tasks.insert_many" ->
            \A i \in DOMAIN r.tasks : HasId(tasks', r.tasks[i].id)
       [] r.op = "update_task" /\ r.pc = "tasks.update_one" ->
            HasId(tasks, r.args[1]) =>
              LET t == FindOne(tasks', r.args[1]) IN ApplyTaskUpdate(t, r.args[2]) = t
       [] r.op \in {"update_deliverable", "upload_deliverable_file"}
            /\ r.pc = "tasks.update_one" ->
            HasId(tasks, r.args[1]) =>
              /\ FindOne(tasks', r.args[1]).deliverables = r.deliverables
              /\ r.op = "upload_deliverable_file" => r.unique_filename \in uploads'
       [] OTHER -> TRUE

\* C22: in update_task, update_deliverable, upload_deliverable_file and
\* create_project the write is stored by the step that makes it, a request
\* that has begun to notify writes no project, task or file any more, and it
\* is answered with success whether the delivery of an e-mail succeeds or
\* fails.
C22_FanOutBestEffort ==
  [][\A k \in DOMAIN inflight :
       (Resumed(k) /\ inflight[k].op \in FanOutOps) =>
         /\ MutationStored(k)
         /\ FanOutBegun(inflight[k]) =>
              /\ UNCHANGED <<projects, tasks, uploads>>
              /\ Answers => response'.status = 200
         /\ (Answers /\ response'.status = 200 /\ "mail" \in DOMAIN response') =>
              response'.mail \in {"none", "unconfigured", "sent", "failed"}]_vars

\* a reassignment whose e-mail delivery failed: answered 200, the assignee
\* is stored and holds the notification
C22_Witness ==
  /\ response.op = "update_task"
  /\ response.status = 200
  /\ response.mail = "failed"
  /\ response.sent.keys = {"assigned_to"}
  /\ HasId(tasks, response.task_id)
  /\ FindOne(tasks, response.task_id).assigned_to = response.sent.assigned_to
  /\ \E i \in DOMAIN notifications :
       /\ notifications[i].type = "task_assignment_update"
       /\ notifications[i].user_id = response.sent.assigned_to

\* C23: whenever no request is in flight the module store holds no built-in
\* module id twice, under every interleaving of first reads through
\* get_modules_from_db.
C23_SeededOnce ==
  inflight = <<>> =>
    \A m \in DOMAIN MODULE_TEMPLATES :
      Cardinality({i \in DOMAIN config_modules :
                     config_modules[i].id = MODULE_TEMPLATES[m].id}) <= 1

\* C24: a successful admin_delete_task_template writes the list it read
\* without one single template, the others in their order.
C24_OneTemplateRemoved ==
  (response.op = "admin_delete_task_template" /\ response.status = 200) =>
    /\ Len(response.written) = Len(response.read) - 1
    /\ \E k \in DOMAIN response.read :
         response.written = SubSeq(response.read, 1, k - 1)
                              \o SubSeq(response.read, k + 1, Len(response.read))

\* no task of project p carries a module id outside p's module list, and each
\* listed module that has a template has every task of its template once
TasksMatchModules(p, ts, store) ==
  /\ \A i \in DOMAIN ts : ts[i].project_id = p.id => ts[i].module_id \in Range(p.modules)
  /\ \A m \in Range(p.modules) :
       InModulesDict(store, m) =>
         LET templates == ModulesDictGet(store, m).tasks
         IN \A k \in DOMAIN templates :
              Cardinality({i \in DOMAIN ts :
                             /\ ts[i].project_id = p.id
                             /\ ts[i].module_id = m
                             /\ ts[i].title = templates[k].title}) = 1

\* C25: when the second of two update_project requests on a project, both
\* sending a module list and the only requests of the run, is answered, the
\* project's tasks match its stored module list.
C25_TasksMatchModules ==
  [][(/\ ops = 2
      /\ Len(inflight) = 1
      /\ At(1, "update_project", "projects.update_one")
      /\ "modules" \in inflight[1].args[2].keys
      /\ inflight' = <<>>
      /\ response.op = "update_project"
      /\ response.status = 200
      /\ "modules" \in response.sent.keys
      /\ response.project_id = inflight[1].args[1]
      /\ HasId(projects, inflight[1].args[1])) =>
       TasksMatchModules(FindOne(projects', inflight[1].args[1]), tasks',
                         config_modules')]_vars

\* C26: a notification is created unread; no step removes a notification or
\* changes one except to set read from false to true, which only a step of a
\* mark-read request by the notification's own user does;
\* mark_notification_read on another user's notification answers 404 and
\* changes nothing.
C26_ReadOnlyByOwner ==
  [][/\ Len(notifications') >= Len(notifications)
     /\ \A i \in DOMAIN notifications' :
          IF i \in DOMAIN notifications
          THEN \/ notifications'[i] = notifications[i]
               \/ /\ notifications'[i] = [notifications[i] EXCEPT !.read = TRUE]
                  /\ ~notifications[i].read
                  /\ \E k \in DOMAIN inflight :
                       /\ Resumed(k)
                       /\ inflight[k].op \in {"mark_notification_read",
                                              "mark_all_notifications_read"}
                       /\ inflight[k].actor.id = notifications[i].user_id
          ELSE ~notifications'[i].read
     /\ \A k \in DOMAIN inflight :
          (/\ Resumed(k)
           /\ inflight[k].op = "mark_notification_read"
           /\ \E i \in DOMAIN notifications :
                /\ notifications[i].id = inflight[k].args[1]
                /\ notifications[i].user_id # inflight[k].actor.id) =>
            /\ Answers
            /\ response'.status = 404
            /\ notifications' = notifications]_vars

\* the project manager marked their own notification: it is read, the
\* notifications of the other users are still unread
C26_Witness ==
  /\ response.op = "mark_notification_read"
  /\ response.status = 200
  /\ response.actor = 2
  /\ \E i \in DOMAIN notifications :
       /\ notifications[i].id = response.args[1]
       /\ notifications[i].user_id = 2
       /\ notifications[i].read
  /\ \E i \in DOMAIN notifications :
       notifications[i].user_id # 2 /\ ~notifications[i].read

\* C27: in every state a deliverable whose status is approved or rejected
\* has a reviewer and a review time.
C27_ReviewedHasReviewer ==
  \A i \in DOMAIN tasks : \A k \in DOMAIN tasks[i].deliverables :
    LET d == tasks[i].deliverables[k]
    IN d.status \in {"approved", "rejected"} =>
         d.reviewed_by # NoId /\ d.reviewed_at # NoId

\* C28: whenever no request is in flight every file in the upload store is
\* named by the file_url of a deliverable of a stored task.
C28_NoOrphanFiles ==
  inflight = <<>> =>
    \A f \in uploads :
      \E i \in DOMAIN tasks : \E k \in DOMAIN tasks[i].deliverables :
        /\ tasks[i].deliverables[k].file_url # NoUrl
        /\ FileOfUrl(tasks[i].deliverables[k].file_url) = f

\* C29: the write of a request that changes one deliverable of a task leaves
\* every other deliverable of the task, and its checklist, as they are stored
\* when it writes, so the change another request made meanwhile is kept.
C29_OtherElementsKept ==
  [][\A k \in DOMAIN inflight :
       (/\ Resumed(k)
        /\ inflight[k].op \in {"update_deliverable", "upload_deliverable_file",
                               "delete_deliverable"}
        /\ inflight[k].pc = "tasks.update_one"
        /\ HasId(tasks, inflight[k].args[1])) =>
         LET before == FindOne(tasks, inflight[k].args[1])
             after == FindOne(tasks', inflight[k].args[1])
         IN /\ after.checklist = before.checklist
            /\ \A i \in DOMAIN before.deliverables :
                 before.deliverables[i].id # inflight[k].args[2] =>
                   \E j \in DOMAIN after.deliverables :
                     after.deliverables[j] = before.deliverables[i]]_vars

\* C30: in every state a project billed by module has total_project_cost
\* equal to the sum of its module_costs values, and the keys of module_costs
\* are exactly the project's modules.
C30_ModuleBillingConsistent ==
  \A i \in DOMAIN projects :
    LET p == projects[i]
    IN p.billing_mode = "module" =>
         /\ DOMAIN p.module_costs = Range(p.modules)
         /\ p.total_project_cost = DictSum(p.module_costs)

====
